---- MODULE Spec2Model ----
(***************************************************************************)
(* Model of the riid.me short-link service: the create handler             *)
(* (handlers.CreateShortURL), the redirect handler                        *)
(* (handlers.RedirectToLongURL), the Redis link store and the SQLite       *)
(* click log they share.  Every handler is cut into one step per store     *)
(* call, so that concurrent requests interleave exactly where the Go      *)
(* handlers can interleave.                                                *)
(*                                                                         *)
(* Strings that the code inspects (URLs, handles, paths) are sequences of  *)
(* one-character strings; strings that are only compared (auth codes,      *)
(* error messages, headers) are TLA+ strings.  Durations are in hours.     *)
(***************************************************************************)
EXTENDS Integers, Sequences, FiniteSets, TLC

\* ------------------------------------------------------------------ bounds
MaxTicks == 1
MaxClicks == 2
MaxGen == 1
MaxRequests == 3

\* ------------------------------------------------------- program constants
DefaultExpirationDays == 365
MaxExpirationDays == 365 * 10
NoExpirationValue == 0
MinHandleLen == 3
MaxHandleLen == 30
HoursPerDay == 24

StatusOK == 200
StatusMovedPermanently == 301
StatusBadRequest == 400
StatusUnauthorized == 401
StatusNotFound == 404
StatusConflict == 409
StatusInternalServerError == 500
StatusServiceUnavailable == 503

\* ----------------------------------------------------------------- strings
HasPrefix(s, prefix) ==
    /\ Len(s) >= Len(prefix)
    /\ SubSeq(s, 1, Len(prefix)) = prefix

HasSuffix(s, suffix) ==
    /\ Len(s) >= Len(suffix)
    /\ SubSeq(s, Len(s) - Len(suffix) + 1, Len(s)) = suffix

RECURSIVE TrimLeft(_)
TrimLeft(s) ==
    IF s # <<>> /\ Head(s) = " " THEN TrimLeft(Tail(s)) ELSE s

RECURSIVE TrimRight(_)
TrimRight(s) ==
    IF s # <<>> /\ s[Len(s)] = " " THEN TrimRight(SubSeq(s, 1, Len(s) - 1)) ELSE s

TrimSpace(s) == TrimRight(TrimLeft(s))

\* A character is a string; the ones named here take two bytes in UTF-8,
\* every other one a single byte.  len of a Go string counts bytes.
TwoByteChars == {"U+00E9"}

Utf8Len(ch) == IF ch \in TwoByteChars THEN 2 ELSE 1

RECURSIVE ByteLen(_)
ByteLen(s) == IF s = <<>> THEN 0 ELSE Utf8Len(Head(s)) + ByteLen(Tail(s))

HttpScheme == <<"h", "t", "t", "p", ":", "/", "/">>
HttpsScheme == <<"h", "t", "t", "p", "s", ":", "/", "/">>

\* NormalizeURL that defaults to http.
NormalizeURL_HttpDefault(url) ==
    IF ~HasPrefix(TrimSpace(url), HttpScheme) /\ ~HasPrefix(TrimSpace(url), HttpsScheme)
    THEN HttpScheme \o TrimSpace(url)
    ELSE TrimSpace(url)

\* NormalizeURL that trims and adds no scheme.
NormalizeURL_NoDefault(url) == TrimSpace(url)

\* NormalizeURL that puts https:// in front of every URL.
NormalizeURL_AlwaysPrefix(url) == HttpsScheme \o TrimSpace(url)

NormalizeURL(url) ==
    LET trimmed == TrimSpace(url) IN
    IF ~HasPrefix(trimmed, HttpScheme) /\ ~HasPrefix(trimmed, HttpsScheme)
    THEN HttpsScheme \o trimmed
    ELSE trimmed

\* ------------------------------------------------------------ configuration
Scheme == <<"h", "t", "t", "p">>
Domain == <<"l", "o", "c", "a", "l", "h", "o", "s", "t", ":", "3", "0", "0", "0">>

\* ShortURL without the scheme.
ShortURL_DomainOnly(code) == Domain \o <<"/">> \o code

ShortURL(code) == Scheme \o <<":", "/", "/">> \o Domain \o <<"/">> \o code

\* The n-th code handed out by the shortid generator: nine characters of
\* the generator's alphabet, all distinct from one another.
GeneratedCode(n) ==
    <<"s", "I", "d", "_", "-", "0", "0", "0">> \o <<ToString(n)>>

\* ------------------------------------------------------------------- state
VARIABLES
    ValidAuthCodes,  \* config.GlobalAppConfig.ValidAuthCodes
    rdb,             \* storage.Rdb: key -> [value, expireAt]
    clicks,          \* storage.StatsDB: the rows of table clicks, by id
    sidCount,        \* codes the shortid generator has handed out
    now,             \* wall clock, hours
    ticks,           \* clock advances so far
    pc,              \* per connection: position in the handler it runs
    req,             \* per connection: the request being served
    loc,             \* per connection: the handler's local variables
    out,             \* the exchange the latest step completed, if any
    hist             \* history: the redirects counted per code, where kept

vars == <<ValidAuthCodes, rdb, clicks, sidCount, now, ticks, pc, req, loc, out, hist>>

Procs == {"c1", "c2"}

NoReq == [kind |-> "none"]
NoLoc == [err |-> "nil"]
NoExchange == [req |-> NoReq, resp |-> [status |-> 0]]

\* ------------------------------------------------------------------- store
\* Redis keeps, with a key, the moment it expires; Persistent is the
\* reply of TTL for a key written without expiry.
Persistent == -1

\* Live that takes every key written for present, whatever its expiry.
Live_IgnoresExpiry(code) == code \in DOMAIN rdb

Live(code) ==
    /\ code \in DOMAIN rdb
    /\ \/ rdb[code].expireAt = Persistent
       \/ now < rdb[code].expireAt

\* SET key value [EX seconds]: go-redis sends the expiry only for a
\* positive duration.
RdbSet(code, value, ttl) ==
    [c \in (DOMAIN rdb) \cup {code} |->
        IF c = code
        THEN [value |-> value,
              expireAt |-> IF ttl > 0 THEN now + ttl ELSE Persistent]
        ELSE rdb[c]]

\* IsValidAuthCode that passes over the first entry of the allow-list.
IsValidAuthCode_SkipsFirst(code) ==
    \E i \in 2..Len(ValidAuthCodes) : code = ValidAuthCodes[i]

\* IsValidAuthCode that accepts every code.
IsValidAuthCode_Any(code) == TRUE

\* The loop of CreateShortURL over the allow-list.
IsValidAuthCode(code) ==
    \E i \in 1..Len(ValidAuthCodes) : code = ValidAuthCodes[i]

\* isValidCode that compares with the first entry only.
isValidCode_FirstOnly(code) ==
    Len(ValidAuthCodes) > 0 /\ code = ValidAuthCodes[1]

\* The loop of ValidateAuthCodeHandler over the allow-list, a copy of the
\* loop of CreateShortURL.
isValidCode(code) ==
    \E i \in 1..Len(ValidAuthCodes) : code = ValidAuthCodes[i]

\* ----------------------------------------------------------------- history
\* The history counts, per code, the redirect requests whose lookup found
\* a target (resolved), the click inserts that failed (failed) and the 301
\* responses sent (sent). It is no state of the program: it is kept where
\* a specification starts it (on), and stays empty elsewhere.
NoHistory == [on |-> FALSE, resolved |-> <<>>, failed |-> <<>>, sent |-> <<>>]

Count(f, code) == IF code \in DOMAIN f THEN f[code] ELSE 0

Bump(f, code) ==
    [c \in (DOMAIN f) \cup {code} |-> IF c = code THEN Count(f, code) + 1 ELSE f[c]]

RECURSIVE Total(_)
Total(f) ==
    IF DOMAIN f = {} THEN 0
    ELSE LET c == CHOOSE x \in DOMAIN f : TRUE
         IN f[c] + Total([x \in (DOMAIN f) \ {c} |-> f[x]])

\* The lookup of a redirect request has found the target of code.
Resolved(code) ==
    IF hist.on THEN [hist EXCEPT !.resolved = Bump(@, code)] ELSE hist

\* A redirect request for code is answered 301, its insert done or failed.
Answered(code, sqlOK) ==
    IF hist.on
    THEN [hist EXCEPT !.sent = Bump(@, code),
                      !.failed = IF sqlOK THEN @ ELSE Bump(@, code)]
    ELSE hist

\* ------------------------------------------------------------------- init
AllowLists == {<<"k1">>}

Init ==
    /\ ValidAuthCodes \in AllowLists
    /\ rdb = <<>>
    /\ clicks = <<>>
    /\ sidCount = 0
    /\ now = 0
    /\ ticks = 0
    /\ pc = [p \in Procs |-> "idle"]
    /\ req = [p \in Procs |-> NoReq]
    /\ loc = [p \in Procs |-> NoLoc]
    /\ out = NoExchange
    /\ hist = NoHistory

\* The initial state of a specification that keeps the history.
InitCount ==
    /\ ValidAuthCodes \in AllowLists
    /\ rdb = <<>>
    /\ clicks = <<>>
    /\ sidCount = 0
    /\ now = 0
    /\ ticks = 0
    /\ pc = [p \in Procs |-> "idle"]
    /\ req = [p \in Procs |-> NoReq]
    /\ loc = [p \in Procs |-> NoLoc]
    /\ out = NoExchange
    /\ hist = [NoHistory EXCEPT !.on = TRUE]

\* VALID_AUTH_CODES is a sequence of tokens, a code or a comma each.
\* strings.Split(s, ","): the fields between the commas, empty ones
\* included; a string without comma is its only field.
RECURSIVE SplitComma(_, _)
SplitComma(tokens, field) ==
    IF tokens = <<>> THEN <<field>>
    ELSE IF Head(tokens) = "," THEN <<field>> \o SplitComma(Tail(tokens), "")
    ELSE SplitComma(Tail(tokens), Head(tokens))

\* LoadEnv: the allow-list is the split of VALID_AUTH_CODES, and empty when
\* the variable is empty or not set.
LoadAuthCodes(authCodesEnv) ==
    IF authCodesEnv # <<>> THEN SplitComma(authCodesEnv, "") ELSE <<>>

AuthCodesEnvs == {<<>>, <<"k1">>, <<"k1", ",", ",", "k2">>, <<"k1", ",">>}

InitAuth ==
    /\ ValidAuthCodes \in {LoadAuthCodes(e) : e \in AuthCodesEnvs}
    /\ rdb = <<>>
    /\ clicks = <<>>
    /\ sidCount = 0
    /\ now = 0
    /\ ticks = 0
    /\ pc = [p \in Procs |-> "idle"]
    /\ req = [p \in Procs |-> NoReq]
    /\ loc = [p \in Procs |-> NoLoc]
    /\ out = NoExchange
    /\ hist = NoHistory

\* ------------------------------------------------------------------ create
\* The handler writes its response and returns: the connection is free
\* again.
Reply(p, request, response) ==
    /\ pc' = [pc EXCEPT ![p] = "idle"]
    /\ req' = [req EXCEPT ![p] = NoReq]
    /\ loc' = [loc EXCEPT ![p] = NoLoc]
    /\ out' = [req |-> request, resp |-> response]

ErrorReply(p, request, status, msg) ==
    Reply(p, request, [status |-> status, error |-> msg])

\* The handler goes on to its next store call.
Goto(p, label, request, locals) ==
    /\ pc' = [pc EXCEPT ![p] = label]
    /\ req' = [req EXCEPT ![p] = request]
    /\ loc' = [loc EXCEPT ![p] = locals]
    /\ out' = NoExchange

\* URLMissing that lets every long_url through.
URLMissing_Never(body) == FALSE

\* Whether the request has no long_url: the field is empty, or absent and
\* so decoded to the empty string.
URLMissing(body) == body.long_url = <<>>

\* HasCustomHandle that also takes the auth branch for a request that
\* carries an auth code.
HasCustomHandle_OrAuthCode(body) == body.custom_handle # <<>> \/ body.auth_code # ""

\* Whether the request asks for a custom handle, the branch that needs
\* an auth code.
HasCustomHandle(body) == body.custom_handle # <<>>

ValidHandleLength(handle) ==
    ~(ByteLen(handle) < MinHandleLen \/ ByteLen(handle) > MaxHandleLen)

\* DefaultDuration of thirty days.
DefaultDuration_ThirtyDays == (DefaultExpirationDays \div 12) * HoursPerDay

\* The default expiration every create starts from.
DefaultDuration == DefaultExpirationDays * HoursPerDay

\* ------------------------------------------------------------ time.Duration
\* A time.Duration is a signed 64-bit count of nanoseconds. It is kept
\* here as its bytes, the lowest first, for the integers of the checker
\* are narrower; a product is cut to the bytes of its width as the
\* machine cuts it.
Int64Bytes == 8
WideBytes == 12
SecondsPerHour == 3600
NanosPerSecond == 1000000000

\* The bytes of a natural number below 2^31.
Bytes(n, w) ==
    [i \in 0..(w - 1) |->
        IF i = 0 THEN n % 256
        ELSE IF i = 1 THEN (n \div 256) % 256
        ELSE IF i = 2 THEN (n \div 65536) % 256
        ELSE IF i = 3 THEN (n \div 16777216) % 256
        ELSE 0]

RECURSIVE ColumnSum(_, _, _, _)
ColumnSum(a, b, k, i) ==
    IF i < 0 THEN 0 ELSE a[i] * b[k - i] + ColumnSum(a, b, k, i - 1)

RECURSIVE CarryInto(_, _, _)
CarryInto(a, b, k) ==
    IF k = 0 THEN 0
    ELSE (ColumnSum(a, b, k - 1, k - 1) + CarryInto(a, b, k - 1)) \div 256

\* The product of two numbers of w bytes, cut to w bytes.
MulBytes(a, b, w) ==
    [k \in 0..(w - 1) |-> (ColumnSum(a, b, k, k) + CarryInto(a, b, k)) % 256]

\* time.Hour, in nanoseconds, in 8 and in 12 bytes.
Hour64 == MulBytes(Bytes(SecondsPerHour, Int64Bytes), Bytes(NanosPerSecond, Int64Bytes),
                   Int64Bytes)

HourWide == MulBytes(Bytes(SecondsPerHour, WideBytes), Bytes(NanosPerSecond, WideBytes),
                     WideBytes)

HourBytes(w) == IF w = Int64Bytes THEN Hour64 ELSE HourWide

\* time.Duration(days) * 24 * time.Hour in w bytes.
DaysDuration(days, w) ==
    LET hours == Bytes(days * HoursPerDay, w) IN
    MulBytes(hours, HourBytes(w), w)

\* ResolveExpiration with the number of seconds of MaxExpirationDays for
\* the upper bound of the days.
ResolveExpiration_BoundInSeconds(authorized, days) ==
    IF authorized /\ days # <<>>
    THEN IF days[1] = NoExpirationValue
         THEN [ok |-> TRUE, duration |-> 0]
         ELSE IF days[1] > 0 /\ days[1] <= MaxExpirationDays * HoursPerDay * SecondsPerHour
         THEN [ok |-> TRUE, duration |-> days[1] * HoursPerDay]
         ELSE [ok |-> FALSE, duration |-> DefaultExpirationDays * HoursPerDay]
    ELSE [ok |-> TRUE, duration |-> DefaultExpirationDays * HoursPerDay]

\* ResolveExpiration without the upper bound on the days.
ResolveExpiration_NoUpperBound(authorized, days) ==
    IF authorized /\ days # <<>>
    THEN IF days[1] = NoExpirationValue
         THEN [ok |-> TRUE, duration |-> 0]
         ELSE IF days[1] > 0
         THEN [ok |-> TRUE, duration |-> days[1] * HoursPerDay]
         ELSE [ok |-> FALSE, duration |-> DefaultExpirationDays * HoursPerDay]
    ELSE [ok |-> TRUE, duration |-> DefaultExpirationDays * HoursPerDay]

\* ResolveExpiration that takes the days for hours.
ResolveExpiration_DaysAsHours(authorized, days) ==
    IF authorized /\ days # <<>>
    THEN IF days[1] = NoExpirationValue
         THEN [ok |-> TRUE, duration |-> 0]
         ELSE IF days[1] > 0 /\ days[1] <= MaxExpirationDays
         THEN [ok |-> TRUE, duration |-> days[1]]
         ELSE [ok |-> FALSE, duration |-> DefaultExpirationDays * HoursPerDay]
    ELSE [ok |-> TRUE, duration |-> DefaultExpirationDays * HoursPerDay]

\* The expiration of a custom handle: expiration_days is a pointer, <<>>
\* when the request has none.
ResolveExpiration(authorized, days) ==
    IF authorized /\ days # <<>>
    THEN IF days[1] = NoExpirationValue
         THEN [ok |-> TRUE, duration |-> 0]
         ELSE IF days[1] > 0 /\ days[1] <= MaxExpirationDays
         THEN [ok |-> TRUE, duration |-> days[1] * HoursPerDay]
         ELSE [ok |-> FALSE, duration |-> DefaultDuration]
    ELSE [ok |-> TRUE, duration |-> DefaultDuration]

\* CreateShortURL up to its first store call: decoding, the URL check,
\* normalisation, the auth and length checks of a custom handle, or the
\* generation of a random code.
CreateShortURL(p, body) ==
    /\ pc[p] = "idle"
    /\ UNCHANGED <<hist, ValidAuthCodes, rdb, clicks, now, ticks>>
    /\ IF ~body.valid_json
       THEN /\ ErrorReply(p, body, StatusBadRequest, "Invalid request body")
            /\ UNCHANGED sidCount
       ELSE IF URLMissing(body)
       THEN /\ ErrorReply(p, body, StatusBadRequest, "URL is required")
            /\ UNCHANGED sidCount
       ELSE LET start == [normalizedURL |-> NormalizeURL(body.long_url),
                          codeToUse |-> <<>>,
                          redisExpirationDuration |-> DefaultDuration,
                          isValidAuthCodeForCustomFeature |-> FALSE,
                          err |-> "nil"]
            IN
            IF HasCustomHandle(body)
            THEN /\ UNCHANGED sidCount
                 /\ IF body.auth_code = ""
                    THEN ErrorReply(p, body, StatusUnauthorized,
                                    "Authorization code required for custom handle.")
                    ELSE IF ~IsValidAuthCode(body.auth_code)
                    THEN ErrorReply(p, body, StatusUnauthorized, "Invalid authorization code.")
                    ELSE IF ~ValidHandleLength(body.custom_handle)
                    THEN ErrorReply(p, body, StatusBadRequest,
                                    "Custom handle must be between 3 and 30 characters.")
                    ELSE Goto(p, "exists", body,
                              [start EXCEPT !.isValidAuthCodeForCustomFeature = TRUE])
            ELSE \/ /\ sidCount < MaxGen
                    /\ sidCount' = sidCount + 1
                    /\ Goto(p, "set", body,
                            [start EXCEPT !.codeToUse = GeneratedCode(sidCount + 1)])
                 \/ /\ UNCHANGED sidCount
                    /\ ErrorReply(p, body, StatusInternalServerError,
                                  "Error generating short code")

\* EXISTS key: the number of the keys named that are present.
RdbExists(code) == IF Live(code) THEN 1 ELSE 0

\* HandleTaken that never finds a handle taken.
HandleTaken_Never(exists) == exists > 1

HandleTaken(exists) == exists = 1

\* CreateExists that reserves a free handle, with the default TTL, before
\* it resolves the expiration.
CreateExists_ReservesFirst(p, redisOK) ==
    /\ pc[p] = "exists"
    /\ UNCHANGED <<hist, ValidAuthCodes, clicks, sidCount, now, ticks>>
    /\ IF ~redisOK
       THEN /\ rdb' = rdb
            /\ ErrorReply(p, req[p], StatusInternalServerError,
                          "Error checking custom handle availability.")
       ELSE IF HandleTaken(RdbExists(req[p].custom_handle))
       THEN /\ rdb' = rdb
            /\ ErrorReply(p, req[p], StatusConflict, "Custom handle '%s' is already taken.")
       ELSE LET expiration == ResolveExpiration(loc[p].isValidAuthCodeForCustomFeature,
                                                req[p].expiration_days)
            IN
            /\ rdb' = RdbSet(req[p].custom_handle, loc[p].normalizedURL, DefaultDuration)
            /\ IF expiration.ok
               THEN Goto(p, "set", req[p],
                         [loc[p] EXCEPT !.codeToUse = req[p].custom_handle,
                                        !.redisExpirationDuration = expiration.duration])
               ELSE ErrorReply(p, req[p], StatusBadRequest,
                               "Expiration must be 0 (for no expiry) or between 1 and 3650 days.")

\* The availability check of a custom handle and the resolution of its
\* expiration.
CreateExists(p, redisOK) ==
    /\ pc[p] = "exists"
    /\ UNCHANGED <<hist, ValidAuthCodes, rdb, clicks, sidCount, now, ticks>>
    /\ IF ~redisOK
       THEN ErrorReply(p, req[p], StatusInternalServerError,
                       "Error checking custom handle availability.")
       ELSE IF HandleTaken(RdbExists(req[p].custom_handle))
       THEN ErrorReply(p, req[p], StatusConflict, "Custom handle '%s' is already taken.")
       ELSE LET expiration == ResolveExpiration(loc[p].isValidAuthCodeForCustomFeature,
                                                req[p].expiration_days)
            IN
            IF expiration.ok
            THEN Goto(p, "set", req[p],
                      [loc[p] EXCEPT !.codeToUse = req[p].custom_handle,
                                     !.redisExpirationDuration = expiration.duration])
            ELSE ErrorReply(p, req[p], StatusBadRequest,
                            "Expiration must be 0 (for no expiry) or between 1 and 3650 days.")

\* CreateSet that tries the write again when it fails.
CreateSet_RetryOnError(p, redisOK) ==
    /\ pc[p] = "set"
    /\ UNCHANGED <<hist, ValidAuthCodes, clicks, sidCount, now, ticks>>
    /\ IF ~redisOK
       THEN /\ Goto(p, "set", req[p], loc[p])
            /\ UNCHANGED rdb
       ELSE /\ rdb' = RdbSet(loc[p].codeToUse, loc[p].normalizedURL,
                             loc[p].redisExpirationDuration)
            /\ Reply(p, req[p], [status |-> StatusOK,
                                 short_url |-> ShortURL(loc[p].codeToUse)])

\* CreateSet that does not look at the error of the write.
CreateSet_ErrorIgnored(p, redisOK) ==
    /\ pc[p] = "set"
    /\ UNCHANGED <<hist, ValidAuthCodes, clicks, sidCount, now, ticks>>
    /\ rdb' = IF redisOK
              THEN RdbSet(loc[p].codeToUse, loc[p].normalizedURL,
                          loc[p].redisExpirationDuration)
              ELSE rdb
    /\ Reply(p, req[p], [status |-> StatusOK,
                         short_url |-> ShortURL(loc[p].codeToUse)])

\* The write of the link and the success response.
CreateSet(p, redisOK) ==
    /\ pc[p] = "set"
    /\ UNCHANGED <<hist, ValidAuthCodes, clicks, sidCount, now, ticks>>
    /\ IF ~redisOK
       THEN /\ ErrorReply(p, req[p], StatusInternalServerError, "Error storing URL")
            /\ UNCHANGED rdb
       ELSE /\ rdb' = RdbSet(loc[p].codeToUse, loc[p].normalizedURL,
                             loc[p].redisExpirationDuration)
            /\ Reply(p, req[p], [status |-> StatusOK,
                                 short_url |-> ShortURL(loc[p].codeToUse)])

\* ---------------------------------------------------------------- redirect
\* The router of the packaged server (GET): the fixed routes come first,
\* the catch-all /{shortcode} matches one non-empty path segment.
StatsPrefix == <<"/", "a", "p", "i", "/", "s", "t", "a", "t", "s", "/">>

Route(path) ==
    IF /\ HasPrefix(path, StatsPrefix)
       /\ Len(path) > Len(StatsPrefix)
       /\ \A i \in (Len(StatsPrefix) + 1)..Len(path) : path[i] # "/"
    THEN "stats"
    ELSE IF path = <<"/", "h", "e", "a", "l", "t", "h">> THEN "health"
    ELSE IF path = <<"/", "t", "e", "s", "t", "-", "r", "o", "u", "t", "e">> THEN "test-route"
    ELSE IF HasPrefix(path, <<"/", "s", "t", "a", "t", "i", "c", "/">>) THEN "static"
    ELSE IF path = <<"/">> THEN "index"
    ELSE IF /\ Len(path) >= 2
            /\ path[1] = "/"
            /\ \A i \in 2..Len(path) : path[i] # "/"
    THEN "redirect"
    ELSE "none"

\* The paths RedirectToLongURL refuses before it looks at the store.
SkippedPath(path) ==
    \/ path = <<"/">>
    \/ HasPrefix(path, <<"/", "a", "p", "i", "/">>)
    \/ HasPrefix(path, <<"/", "s", "t", "a", "t", "i", "c", "/">>)
    \/ path = <<"/", "f", "a", "v", "i", "c", "o", "n", ".", "i", "c", "o">>
    \/ path = <<"/", "h", "e", "a", "l", "t", "h">>
    \/ path = <<"/", "t", "e", "s", "t", "-", "r", "o", "u", "t", "e">>
    \/ HasSuffix(path, <<".", "i", "c", "o">>)
    \/ HasSuffix(path, <<".", "p", "n", "g">>)
    \/ HasSuffix(path, <<".", "j", "p", "g">>)
    \/ HasSuffix(path, <<".", "c", "s", "s">>)
    \/ HasSuffix(path, <<".", "j", "s">>)

TrimPrefix(s, prefix) ==
    IF HasPrefix(s, prefix) THEN SubSeq(s, Len(prefix) + 1, Len(s)) ELSE s

\* GET key: redis.Nil for a key that is absent or has expired.
RdbGet(code) ==
    IF Live(code)
    THEN [err |-> "nil", val |-> rdb[code].value]
    ELSE [err |-> "redis.Nil", val |-> <<>>]

\* LookupStatus that takes every error for a key not found.
LookupStatus_ErrorAsNotFound(err) ==
    IF err # "nil" THEN StatusNotFound ELSE 0

\* LookupStatus without the redis.Nil case.
LookupStatus_NilIgnored(err) ==
    IF err # "nil" /\ err # "redis.Nil" THEN StatusInternalServerError ELSE 0

\* What RedirectToLongURL answers after the lookup: 0 when it goes on to
\* record the click.
LookupStatus(err) ==
    IF err = "redis.Nil" THEN StatusNotFound
    ELSE IF err # "nil" THEN StatusInternalServerError
    ELSE 0

\* RedirectToLongURL that renews the key's TTL when it finds the key
\* (GETEX in place of GET).
RedirectToLongURL_RefreshesTTL(p, get, redisOK) ==
    /\ pc[p] = "idle"
    /\ Route(get.path) = "redirect"
    /\ Len(clicks) + Cardinality({q \in Procs : pc[q] = "insert"}) < MaxClicks
    /\ UNCHANGED <<hist, ValidAuthCodes, clicks, sidCount, now, ticks>>
    /\ LET code == TrimPrefix(get.path, <<"/">>) IN
       IF SkippedPath(get.path)
       THEN /\ rdb' = rdb
            /\ ErrorReply(p, get, StatusNotFound, "404 page not found")
       ELSE LET got == IF redisOK THEN RdbGet(code) ELSE [err |-> "error", val |-> <<>>]
            IN
            IF LookupStatus(got.err) = StatusNotFound
            THEN /\ rdb' = rdb
                 /\ ErrorReply(p, get, StatusNotFound, "Short URL not found")
            ELSE IF LookupStatus(got.err) = StatusInternalServerError
            THEN /\ rdb' = rdb
                 /\ ErrorReply(p, get, StatusInternalServerError, "Error retrieving URL")
            ELSE /\ rdb' = RdbSet(code, got.val, DefaultDuration)
                 /\ Goto(p, "insert", get,
                         [code |-> code, longURL |-> got.val, err |-> got.err])

\* RedirectToLongURL up to and including the lookup in Redis.
RedirectToLongURL(p, get, redisOK) ==
    /\ pc[p] = "idle"
    /\ Route(get.path) = "redirect"
    /\ Len(clicks) + Cardinality({q \in Procs : pc[q] = "insert"}) < MaxClicks
    /\ hist.on => Total(hist.resolved) < MaxRequests
    /\ UNCHANGED <<ValidAuthCodes, rdb, clicks, sidCount, now, ticks>>
    /\ LET code == TrimPrefix(get.path, <<"/">>) IN
       IF SkippedPath(get.path)
       THEN /\ ErrorReply(p, get, StatusNotFound, "404 page not found")
            /\ UNCHANGED hist
       ELSE LET got == IF redisOK THEN RdbGet(code) ELSE [err |-> "error", val |-> <<>>]
            IN
            IF LookupStatus(got.err) = StatusNotFound
            THEN /\ ErrorReply(p, get, StatusNotFound, "Short URL not found")
                 /\ UNCHANGED hist
            ELSE IF LookupStatus(got.err) = StatusInternalServerError
            THEN /\ ErrorReply(p, get, StatusInternalServerError, "Error retrieving URL")
                 /\ UNCHANGED hist
            ELSE /\ Goto(p, "insert", get,
                         [code |-> code, longURL |-> got.val, err |-> got.err])
                 /\ hist' = Resolved(code)

\* RecordClick that answers 500 when the insert fails.
RecordClick_InsertErrorSurfaced(p, sqlOK) ==
    /\ pc[p] = "insert"
    /\ UNCHANGED <<hist, ValidAuthCodes, rdb, sidCount, now, ticks>>
    /\ IF sqlOK
       THEN /\ clicks' = Append(clicks, [short_code |-> loc[p].code,
                                         timestamp |-> now,
                                         user_agent |-> req[p].user_agent,
                                         referrer |-> req[p].referrer])
            /\ Reply(p, req[p], [status |-> StatusMovedPermanently,
                                 location |-> loc[p].longURL,
                                 errExec |-> "nil"])
       ELSE /\ clicks' = clicks
            /\ ErrorReply(p, req[p], StatusInternalServerError, "Failed to record click event")

\* RecordClick that answers without waiting for the insert, which is not
\* yet in the log when the response is sent.
RecordClick_InsertAfterResponse(p, sqlOK) ==
    /\ pc[p] = "insert"
    /\ UNCHANGED <<hist, ValidAuthCodes, rdb, clicks, sidCount, now, ticks>>
    /\ Reply(p, req[p], [status |-> StatusMovedPermanently,
                         location |-> loc[p].longURL,
                         errExec |-> "nil"])

\* RecordClick whose row goes before the rows already in the log.
RecordClick_RowInFront(p, sqlOK) ==
    /\ pc[p] = "insert"
    /\ UNCHANGED <<hist, ValidAuthCodes, rdb, sidCount, now, ticks>>
    /\ clicks' = IF sqlOK
                 THEN <<[short_code |-> loc[p].code,
                         timestamp |-> now,
                         user_agent |-> req[p].user_agent,
                         referrer |-> req[p].referrer]>> \o clicks
                 ELSE clicks
    /\ Reply(p, req[p], [status |-> StatusMovedPermanently,
                         location |-> loc[p].longURL,
                         errExec |-> IF sqlOK THEN "nil" ELSE "error"])

\* RecordClick whose insert is dropped, without an error, while another
\* connection is about to insert.
RecordClick_DropsWhenBusy(p, sqlOK) ==
    /\ pc[p] = "insert"
    /\ UNCHANGED <<ValidAuthCodes, rdb, sidCount, now, ticks>>
    /\ clicks' = IF sqlOK /\ ~\E q \in Procs \ {p} : pc[q] = "insert"
                 THEN Append(clicks, [short_code |-> loc[p].code,
                                      timestamp |-> now,
                                      user_agent |-> req[p].user_agent,
                                      referrer |-> req[p].referrer])
                 ELSE clicks
    /\ hist' = Answered(loc[p].code, sqlOK)
    /\ Reply(p, req[p], [status |-> StatusMovedPermanently,
                         location |-> loc[p].longURL,
                         errExec |-> IF sqlOK THEN "nil" ELSE "error"])

\* RecordClick that writes the row of a click twice.
RecordClick_DoubleInsert(p, sqlOK) ==
    /\ pc[p] = "insert"
    /\ UNCHANGED <<ValidAuthCodes, rdb, sidCount, now, ticks>>
    /\ clicks' = IF sqlOK
                 THEN clicks \o
                      [i \in 1..2 |-> [short_code |-> loc[p].code,
                                       timestamp |-> now,
                                       user_agent |-> req[p].user_agent,
                                       referrer |-> req[p].referrer]]
                 ELSE clicks
    /\ hist' = Answered(loc[p].code, sqlOK)
    /\ Reply(p, req[p], [status |-> StatusMovedPermanently,
                         location |-> loc[p].longURL,
                         errExec |-> IF sqlOK THEN "nil" ELSE "error"])

\* RecordClick that keeps only the latest row (INSERT OR REPLACE).
RecordClick_KeepsLatestOnly(p, sqlOK) ==
    /\ pc[p] = "insert"
    /\ UNCHANGED <<hist, ValidAuthCodes, rdb, sidCount, now, ticks>>
    /\ clicks' = IF sqlOK
                 THEN <<[short_code |-> loc[p].code,
                         timestamp |-> now,
                         user_agent |-> req[p].user_agent,
                         referrer |-> req[p].referrer]>>
                 ELSE clicks
    /\ Reply(p, req[p], [status |-> StatusMovedPermanently,
                         location |-> loc[p].longURL,
                         errExec |-> IF sqlOK THEN "nil" ELSE "error"])

\* The click insert and the redirect response; errExec is what the handler
\* logs, not part of the response.
RecordClick(p, sqlOK) ==
    /\ pc[p] = "insert"
    /\ UNCHANGED <<ValidAuthCodes, rdb, sidCount, now, ticks>>
    /\ clicks' = IF sqlOK
                 THEN Append(clicks, [short_code |-> loc[p].code,
                                      timestamp |-> now,
                                      user_agent |-> req[p].user_agent,
                                      referrer |-> req[p].referrer])
                 ELSE clicks
    /\ hist' = Answered(loc[p].code, sqlOK)
    /\ Reply(p, req[p], [status |-> StatusMovedPermanently,
                         location |-> loc[p].longURL,
                         errExec |-> IF sqlOK THEN "nil" ELSE "error"])

\* ------------------------------------------------------------------- stats
\* SELECT timestamp, user_agent, referrer FROM clicks WHERE short_code = ?
\* ORDER BY timestamp DESC: the rows of the code, latest first; the order
\* of rows with one timestamp is the database's choice.
\* MatchingRows that shows the rows of live links only.
MatchingRows_LiveOnly(shortCode) ==
    IF Live(shortCode)
    THEN {i \in 1..Len(clicks) : clicks[i].short_code = shortCode}
    ELSE {}

MatchingRows(shortCode) == {i \in 1..Len(clicks) : clicks[i].short_code = shortCode}

ClickDetail(row) ==
    [timestamp |-> row.timestamp, user_agent |-> row.user_agent, referrer |-> row.referrer]

\* QueryOrders that returns the rows in the order of their insertion.
QueryOrders_InsertionOrder(shortCode) ==
    LET rows == MatchingRows(shortCode) IN
    {f \in [1..Cardinality(rows) -> rows] : \A j, k \in DOMAIN f : j < k => f[j] < f[k]}

QueryOrders(shortCode) ==
    LET rows == MatchingRows(shortCode) IN
    {f \in [1..Cardinality(rows) -> rows] :
        /\ \A j, k \in DOMAIN f : j # k => f[j] # f[k]
        /\ \A j, k \in DOMAIN f :
              j < k => clicks[f[j]].timestamp >= clicks[f[k]].timestamp}

\* encoding/json of a slice: the handler's slice is nil until a row is
\* appended, and a nil slice is written as null, not as [].
JsonSlice(list) ==
    IF list = <<>>
    THEN [json |-> "null", items |-> <<>>]
    ELSE [json |-> "array", items |-> list]

\* GetLinkStatsHandler: one query of the click log, then the response.
GetLinkStatsHandler(p, get, sqlResult) ==
    /\ pc[p] = "idle"
    /\ Route(get.path) = "stats"
    /\ UNCHANGED <<hist, ValidAuthCodes, rdb, clicks, sidCount, now, ticks>>
    /\ LET shortCode == TrimPrefix(get.path, StatsPrefix) IN
       IF sqlResult = "query error"
       THEN ErrorReply(p, get, StatusInternalServerError, "Failed to retrieve statistics")
       ELSE IF sqlResult = "rows error"
       THEN ErrorReply(p, get, StatusInternalServerError, "Failed to process statistics")
       ELSE \E f \in QueryOrders(shortCode) :
                Reply(p, get, [status |-> StatusOK,
                               short_code |-> shortCode,
                               total_clicks |-> Len(f),
                               clicks |-> JsonSlice([j \in DOMAIN f |->
                                                        ClickDetail(clicks[f[j]])])])

\* ----------------------------------------------------------- validate-auth
\* ValidateAuthCodeHandler: reads the allow-list, writes nothing.
ValidateAuthCodeHandler(p, body) ==
    /\ pc[p] = "idle"
    /\ UNCHANGED <<hist, ValidAuthCodes, rdb, clicks, sidCount, now, ticks>>
    /\ IF ~body.valid_json
       THEN Reply(p, body, [status |-> StatusBadRequest, valid |-> FALSE,
                            message |-> "Invalid request payload"])
       ELSE IF body.auth_code = ""
       THEN Reply(p, body, [status |-> StatusBadRequest, valid |-> FALSE,
                            message |-> "Authorization code cannot be empty"])
       ELSE IF isValidCode(body.auth_code)
       THEN Reply(p, body, [status |-> StatusOK, valid |-> TRUE, message |-> ""])
       ELSE Reply(p, body, [status |-> StatusOK, valid |-> FALSE,
                            message |-> "Invalid authorization code"])

\* ------------------------------------------------------------------ health
\* healthCheck that takes a client that is there for a store that answers.
healthCheck_NoPing(p, get, client) ==
    /\ pc[p] = "idle"
    /\ Route(get.path) = "health"
    /\ UNCHANGED <<hist, ValidAuthCodes, rdb, clicks, sidCount, now, ticks>>
    /\ IF client = "nil"
       THEN Reply(p, get, [status |-> StatusServiceUnavailable,
                           body |-> [status |-> "ok",
                                     redis |-> [status |-> "error",
                                                error |-> "Redis client not initialized"]],
                           content_type |-> "text/plain; charset=utf-8"])
       ELSE Reply(p, get, [status |-> StatusOK,
                           body |-> [status |-> "ok", redis |-> [status |-> "ok"]],
                           content_type |-> "application/json"])

\* healthCheck: client is the state of the Redis client, "nil" before
\* InitRedis, and else the outcome of its PING. The 503 is written before
\* the Content-Type header is set, which then comes too late for the
\* response: net/http makes the content type out of the body. The
\* top-level status is "ok" in every case.
healthCheck(p, get, client) ==
    /\ pc[p] = "idle"
    /\ Route(get.path) = "health"
    /\ UNCHANGED <<hist, ValidAuthCodes, rdb, clicks, sidCount, now, ticks>>
    /\ IF client = "nil"
       THEN Reply(p, get, [status |-> StatusServiceUnavailable,
                           body |-> [status |-> "ok",
                                     redis |-> [status |-> "error",
                                                error |-> "Redis client not initialized"]],
                           content_type |-> "text/plain; charset=utf-8"])
       ELSE IF client = "ping error"
       THEN Reply(p, get, [status |-> StatusServiceUnavailable,
                           body |-> [status |-> "ok",
                                     redis |-> [status |-> "error",
                                                error |-> "err.Error()"]],
                           content_type |-> "text/plain; charset=utf-8"])
       ELSE Reply(p, get, [status |-> StatusOK,
                           body |-> [status |-> "ok", redis |-> [status |-> "ok"]],
                           content_type |-> "application/json"])

\* ------------------------------------------------------- legacy (main.go)
\* The router of main.go (GET): /api/stats/{shortcode} and /health come
\* before the catch-all /{shortcode}; there is no /test-route, and the
\* static files come after the catch-all.
LegacyRoute(path) ==
    IF /\ HasPrefix(path, StatsPrefix)
       /\ Len(path) > Len(StatsPrefix)
       /\ \A i \in (Len(StatsPrefix) + 1)..Len(path) : path[i] # "/"
    THEN "stats"
    ELSE IF path = <<"/", "h", "e", "a", "l", "t", "h">> THEN "health"
    ELSE IF /\ Len(path) >= 2
            /\ path[1] = "/"
            /\ \A i \in 2..Len(path) : path[i] # "/"
    THEN "redirect"
    ELSE "static"

\* The constants of main.go.
defaultExpirationDays == 365
maxExpirationDays == 365 * 10
noExpirationValue == 0

\* normalizeURL of main.go.
normalizeURL(url) ==
    LET trimmed == TrimSpace(url) IN
    IF ~HasPrefix(trimmed, HttpScheme) /\ ~HasPrefix(trimmed, HttpsScheme)
    THEN HttpsScheme \o trimmed
    ELSE trimmed

\* createShortURL of main.go up to its first store call. validAuthCodes
\* is made of VALID_AUTH_CODES as the allow-list of the packaged server is.
createShortURL(p, body) ==
    /\ pc[p] = "idle"
    /\ UNCHANGED <<hist, ValidAuthCodes, rdb, clicks, now, ticks>>
    /\ IF ~body.valid_json
       THEN /\ ErrorReply(p, body, StatusBadRequest, "Invalid request body")
            /\ UNCHANGED sidCount
       ELSE IF body.long_url = <<>>
       THEN /\ ErrorReply(p, body, StatusBadRequest, "URL is required")
            /\ UNCHANGED sidCount
       ELSE LET start == [normalizedURL |-> normalizeURL(body.long_url),
                          codeToUse |-> <<>>,
                          redisExpirationDuration |-> defaultExpirationDays * HoursPerDay,
                          isValidAuthCodeForCustomFeature |-> FALSE,
                          err |-> "nil"]
            IN
            IF body.custom_handle # <<>>
            THEN /\ UNCHANGED sidCount
                 /\ IF body.auth_code = ""
                    THEN ErrorReply(p, body, StatusUnauthorized,
                                    "Authorization code required for custom handle.")
                    ELSE IF ~\E i \in 1..Len(ValidAuthCodes) :
                                 body.auth_code = ValidAuthCodes[i]
                    THEN ErrorReply(p, body, StatusUnauthorized, "Invalid authorization code.")
                    ELSE IF ByteLen(body.custom_handle) < 3 \/ ByteLen(body.custom_handle) > 30
                    THEN ErrorReply(p, body, StatusBadRequest,
                                    "Custom handle must be between 3 and 30 characters.")
                    ELSE Goto(p, "exists", body,
                              [start EXCEPT !.isValidAuthCodeForCustomFeature = TRUE])
            ELSE \/ /\ sidCount < MaxGen
                    /\ sidCount' = sidCount + 1
                    /\ Goto(p, "set", body,
                            [start EXCEPT !.codeToUse = GeneratedCode(sidCount + 1)])
                 \/ /\ UNCHANGED sidCount
                    /\ ErrorReply(p, body, StatusInternalServerError,
                                  "Error generating short code")

\* The availability check of main.go and the resolution of the expiration.
createShortURLExists(p, redisOK) ==
    /\ pc[p] = "exists"
    /\ UNCHANGED <<hist, ValidAuthCodes, rdb, clicks, sidCount, now, ticks>>
    /\ IF ~redisOK
       THEN ErrorReply(p, req[p], StatusInternalServerError,
                       "Error checking custom handle availability.")
       ELSE IF RdbExists(req[p].custom_handle) = 1
       THEN ErrorReply(p, req[p], StatusConflict, "Custom handle '%s' is already taken.")
       ELSE LET days == req[p].expiration_days
                codeSet == [loc[p] EXCEPT !.codeToUse = req[p].custom_handle]
            IN
            IF loc[p].isValidAuthCodeForCustomFeature /\ days # <<>>
            THEN IF days[1] = noExpirationValue
                 THEN Goto(p, "set", req[p],
                           [codeSet EXCEPT !.redisExpirationDuration = 0])
                 ELSE IF days[1] > 0 /\ days[1] <= maxExpirationDays
                 THEN Goto(p, "set", req[p],
                           [codeSet EXCEPT !.redisExpirationDuration = days[1] * HoursPerDay])
                 ELSE ErrorReply(p, req[p], StatusBadRequest,
                                 "Expiration must be 0 (for no expiry) or between 1 and 3650 days.")
            ELSE Goto(p, "set", req[p], codeSet)

\* The write of main.go and its success response.
createShortURLSet(p, redisOK) ==
    /\ pc[p] = "set"
    /\ UNCHANGED <<hist, ValidAuthCodes, clicks, sidCount, now, ticks>>
    /\ IF ~redisOK
       THEN /\ ErrorReply(p, req[p], StatusInternalServerError, "Error storing URL")
            /\ UNCHANGED rdb
       ELSE /\ rdb' = RdbSet(loc[p].codeToUse, loc[p].normalizedURL,
                             loc[p].redisExpirationDuration)
            /\ Reply(p, req[p],
                     [status |-> StatusOK,
                      short_url |-> Scheme \o <<":", "/", "/">> \o Domain \o <<"/">>
                                     \o loc[p].codeToUse])

\* redirectToLongURL of main.go up to and including the lookup in Redis:
\* the code is the router's variable shortcode, and no path is refused
\* before the lookup.
redirectToLongURL(p, get, redisOK) ==
    /\ pc[p] = "idle"
    /\ LegacyRoute(get.path) = "redirect"
    /\ Len(clicks) + Cardinality({q \in Procs : pc[q] \in {"insert", "legacy insert"}})
          < MaxClicks
    /\ UNCHANGED <<hist, ValidAuthCodes, rdb, clicks, sidCount, now, ticks>>
    /\ LET code == SubSeq(get.path, 2, Len(get.path))
           got == IF redisOK THEN RdbGet(code) ELSE [err |-> "error", val |-> <<>>]
       IN
       IF got.err = "redis.Nil"
       THEN ErrorReply(p, get, StatusNotFound, "Short URL not found")
       ELSE IF got.err # "nil"
       THEN ErrorReply(p, get, StatusInternalServerError, "Error retrieving URL")
       ELSE Goto(p, "legacy insert", get,
                 [code |-> code, longURL |-> got.val, err |-> got.err])

\* The click insert and the redirect response of redirectToLongURL.
redirectToLongURLInsert(p, sqlOK) ==
    /\ pc[p] = "legacy insert"
    /\ UNCHANGED <<hist, ValidAuthCodes, rdb, sidCount, now, ticks>>
    /\ clicks' = IF sqlOK
                 THEN Append(clicks, [short_code |-> loc[p].code,
                                      timestamp |-> now,
                                      user_agent |-> req[p].user_agent,
                                      referrer |-> req[p].referrer])
                 ELSE clicks
    /\ Reply(p, req[p], [status |-> StatusMovedPermanently,
                         location |-> loc[p].longURL,
                         errExec |-> IF sqlOK THEN "nil" ELSE "error"])

\* ------------------------------------------------------------------- clock
\* Time passes, up to the moment the next TTL runs out; by one hour when
\* no key is about to expire.
Pending == {rdb[c].expireAt : c \in {k \in DOMAIN rdb : Live(k) /\ rdb[k].expireAt # Persistent}}

Tick ==
    /\ ticks < MaxTicks
    /\ ticks' = ticks + 1
    /\ now' = IF Pending = {}
              THEN now + 1
              ELSE CHOOSE d \in Pending : \A e \in Pending : d <= e
    /\ out' = NoExchange
    /\ UNCHANGED <<hist, ValidAuthCodes, rdb, clicks, sidCount, pc, req, loc>>

\* ------------------------------------------------------------------ inputs
Abc == <<"a", "b", "c">>
AJs == <<"a", ".", "j", "s">>
Ab == <<"a", "b">>

ExampleCom == <<"e", ".", "c">>
PaddedCom == <<" ", "e", ".", "c">>
HttpX == <<"h", "t", "t", "p", ":", "/", "/", "x">>

CreateBody(url, handle, auth, days) ==
    [kind |-> "create", valid_json |-> TRUE, long_url |-> url,
     custom_handle |-> handle, auth_code |-> auth, expiration_days |-> days]

MalformedBody ==
    [kind |-> "create", valid_json |-> FALSE, long_url |-> <<>>,
     custom_handle |-> <<>>, auth_code |-> "", expiration_days |-> <<>>]

GetRequest(path, ua, ref) ==
    [kind |-> "redirect", path |-> path, user_agent |-> ua, referrer |-> ref]

StatsRequest(code) == [kind |-> "stats", path |-> StatsPrefix \o code]

AuthValidationRequest(valid, code) ==
    [kind |-> "validate-auth", valid_json |-> valid, auth_code |-> code]

Create(procs, bodies) ==
    \/ \E p \in procs, body \in bodies : CreateShortURL(p, body)
    \/ \E p \in procs, ok \in BOOLEAN : CreateExists(p, ok)
    \/ \E p \in procs, ok \in BOOLEAN : CreateSet(p, ok)

Redirect(procs, gets) ==
    \/ \E p \in procs, get \in gets, ok \in BOOLEAN : RedirectToLongURL(p, get, ok)
    \/ \E p \in procs, ok \in BOOLEAN : RecordClick(p, ok)

Stats(procs, gets) ==
    \E p \in procs, get \in gets, r \in {"ok", "query error", "rows error"} :
        GetLinkStatsHandler(p, get, r)

ValidateAuth(procs, bodies) ==
    \E p \in procs, body \in bodies : ValidateAuthCodeHandler(p, body)

LegacyGetRequest(path, ua, ref) ==
    [kind |-> "legacy redirect", path |-> path, user_agent |-> ua, referrer |-> ref]

LegacyRedirect(procs, gets) ==
    \/ \E p \in procs, get \in gets, ok \in BOOLEAN : redirectToLongURL(p, get, ok)
    \/ \E p \in procs, ok \in BOOLEAN : redirectToLongURLInsert(p, ok)

LegacyCreate(procs, bodies) ==
    \/ \E p \in procs, body \in bodies : createShortURL(p, body)
    \/ \E p \in procs, ok \in BOOLEAN : createShortURLExists(p, ok)
    \/ \E p \in procs, ok \in BOOLEAN : createShortURLSet(p, ok)

HealthRequest == [kind |-> "health", path |-> <<"/", "h", "e", "a", "l", "t", "h">>]

RedisClients == {"nil", "ping error", "ok"}

Health(procs) ==
    \E p \in procs, client \in RedisClients : healthCheck(p, HealthRequest, client)

\* The main specification: two clients race on one custom handle, with
\* different targets and expirations, next to a random-code create and
\* the redirects of both codes.
Bodies ==
    {CreateBody(ExampleCom, Abc, "k1", <<0>>),
     CreateBody(HttpX, Abc, "k1", <<1>>),
     CreateBody(ExampleCom, <<>>, "", <<>>)}

Gets == {GetRequest(<<"/">> \o Abc, "ua", "")}

Next == Create(Procs, Bodies) \/ Redirect(Procs, Gets) \/ Tick

Spec == Init /\ [][Next]_vars

\* The redirect specification: targets with and without scheme and
\* padding under random codes, a custom handle the redirect handler's
\* path filter refuses, and the redirects of known and unknown codes.
RedirectBodies ==
    {CreateBody(u, <<>>, "", <<>>) : u \in {ExampleCom, PaddedCom, HttpX}}
        \cup {CreateBody(ExampleCom, AJs, "k1", <<1>>)}

RedirectGets ==
    {GetRequest(<<"/">> \o c, "ua", "") : c \in {AJs, Abc, GeneratedCode(1)}}

NextRedirect == Create(Procs, RedirectBodies) \/ Redirect(Procs, RedirectGets) \/ Tick

SpecRedirect == Init /\ [][NextRedirect]_vars

\* The policy specification: one client, every combination of URL,
\* handle, auth code and expiration.
PolicyBodies ==
    {CreateBody(u, h, a, d) :
        u \in {ExampleCom},
        h \in {<<>>, Ab, Abc},
        a \in {"", "k1", "bad"},
        d \in {<<>>, <<0>>, <<1>>, <<MaxExpirationDays>>, <<MaxExpirationDays + 1>>, <<-1>>}}
        \cup {CreateBody(<<>>, h, a, <<>>) : h \in {<<>>, Abc}, a \in {"", "k1"}}
        \cup {MalformedBody}

NextPolicy == Create({"c1"}, PolicyBodies) \/ Tick

SpecPolicy == Init /\ [][NextPolicy]_vars

\* The normalisation specification: one client creates links, under a
\* random code and under a custom handle, to targets with and without
\* scheme, padded with spaces, of spaces only, and with a scheme in capitals.
PaddedHttpX == <<" ">> \o HttpX \o <<" ">>
HttpsY == HttpsScheme \o <<"y">>
UpperHttpX == <<"H", "T", "T", "P", ":", "/", "/", "x">>
Blank == <<" ">>

NormalizeInputs == {ExampleCom, PaddedCom, HttpX, PaddedHttpX, HttpsY, UpperHttpX, Blank}

NormalizeBodies ==
    {CreateBody(u, h, "k1", <<>>) : u \in NormalizeInputs, h \in {<<>>, Abc}}

NextNormalize == Create({"c1"}, NormalizeBodies) \/ Tick

SpecNormalize == Init /\ [][NextNormalize]_vars

\* The statistics specification: one client; a link of one day under a custom handle,
\* created again with another target once it has expired, a link under a
\* random code, their redirects, the statistics of both codes and of a
\* code that was never created, and the validation of auth codes.
Zzz == <<"z", "z", "z">>

StatsBodies ==
    {CreateBody(ExampleCom, Abc, "k1", <<1>>),
     CreateBody(HttpX, Abc, "k1", <<1>>),
     CreateBody(ExampleCom, <<>>, "", <<>>)}

StatsGets == {GetRequest(<<"/">> \o c, ua, "") : c \in {Abc, GeneratedCode(1)}, ua \in {"ua"}}

StatsRequests == {StatsRequest(c) : c \in {Abc, GeneratedCode(1), Zzz}}

AuthBodies ==
    {AuthValidationRequest(TRUE, c) : c \in {"", "k1", "bad"}}
        \cup {AuthValidationRequest(FALSE, "")}

NextStats ==
    \/ Create({"c1"}, StatsBodies)
    \/ Redirect({"c1"}, StatsGets)
    \/ Stats({"c1"}, StatsRequests)
    \/ ValidateAuth({"c1"}, AuthBodies)
    \/ Tick

SpecStats == Init /\ [][NextStats]_vars

\* The auth specification: the allow-lists LoadEnv makes of several
\* settings of VALID_AUTH_CODES, one with an empty entry; one client
\* validates auth codes and asks for a custom handle with them.
AuthCodes == {"", "k1", "k2", "bad"}

AuthValidations ==
    {AuthValidationRequest(TRUE, c) : c \in AuthCodes}
        \cup {AuthValidationRequest(FALSE, "")}

AuthCreateBodies ==
    {CreateBody(ExampleCom, Abc, a, d) : a \in AuthCodes, d \in {<<>>, <<0>>}}

NextAuth ==
    \/ ValidateAuth({"c1"}, AuthValidations)
    \/ Create({"c1"}, AuthCreateBodies)
    \/ Tick

SpecAuth == InitAuth /\ [][NextAuth]_vars

\* The single-pass specification: two clients create a link under a
\* custom handle and under a random code, ask for the redirect of the
\* handle and of a path the redirect handler refuses, and for the
\* statistics of the handle.  A handler that has made a store call goes on
\* when the call returns: the steps after the first are weakly fair, for
\* each connection.
FaviconIco == <<"/", "f", "a", "v", "i", "c", "o", "n", ".", "i", "c", "o">>

SinglePassBodies ==
    {CreateBody(ExampleCom, Abc, "k1", <<1>>),
     CreateBody(ExampleCom, <<>>, "", <<>>)}

SinglePassGets == {GetRequest(path, "ua", "") : path \in {<<"/">> \o Abc, FaviconIco}}

SinglePassStats == {StatsRequest(Abc)}

Continue(p) ==
    \E ok \in BOOLEAN :
        CreateExists(p, ok) \/ CreateSet(p, ok) \/ RecordClick(p, ok)

NextSinglePass ==
    \/ Create(Procs, SinglePassBodies)
    \/ Redirect(Procs, SinglePassGets)
    \/ Stats(Procs, SinglePassStats)

SpecSinglePass ==
    Init /\ [][NextSinglePass]_vars /\ \A p \in Procs : WF_vars(Continue(p))

\* The length specification: one client asks, with a valid auth code, for
\* handles at and around the length bounds, in one-byte and in two-byte
\* characters.
EAcute2 == <<"U+00E9", "U+00E9">>
EAcute16 == [i \in 1..16 |-> "U+00E9"]
Ascii30 == [i \in 1..30 |-> "a"]
Ascii31 == [i \in 1..31 |-> "a"]

LengthBodies ==
    {CreateBody(ExampleCom, h, "k1", d) :
        h \in {Ab, Abc, Ascii30, Ascii31, EAcute2, EAcute16},
        d \in {<<>>, <<0>>}}

NextLength == Create({"c1"}, LengthBodies) \/ Tick

SpecLength == Init /\ [][NextLength]_vars

\* ------------------------------------------------------------ properties
TypeOK ==
    /\ pc \in [Procs -> {"idle", "exists", "set", "insert", "legacy insert"}]
    /\ sidCount \in 0..MaxGen
    /\ ticks \in 0..MaxTicks
    /\ now >= 0
    /\ \A c \in DOMAIN rdb : rdb[c].expireAt = Persistent \/ rdb[c].expireAt > 0

\* The health specification: one client creates a link of one day under
\* a custom handle, a link under the custom handle "health" and a link
\* under a random code, follows them, and asks for the health of the
\* service in between, the Redis client missing, failing its PING or
\* answering it.
HealthHandle == <<"h", "e", "a", "l", "t", "h">>

HealthBodies ==
    {CreateBody(ExampleCom, Abc, "k1", <<1>>),
     CreateBody(ExampleCom, HealthHandle, "k1", <<>>),
     CreateBody(HttpX, <<>>, "", <<>>)}

HealthGets == {GetRequest(<<"/">> \o c, "ua", "") : c \in {Abc, GeneratedCode(1)}}

NextHealth ==
    \/ Create({"c1"}, HealthBodies)
    \/ Redirect({"c1"}, HealthGets)
    \/ Health({"c1"})
    \/ Tick

SpecHealth == Init /\ [][NextHealth]_vars

\* The frame specification: one client sends creates of every outcome
\* (200, 400 for a malformed body, a missing URL, a handle too short and
\* an expiration out of range, 401, 409, 500) and follows the link, so
\* that the refused creates meet a link store and a click log with entries.
FrameBodies ==
    {CreateBody(ExampleCom, Abc, "k1", <<1>>),
     CreateBody(ExampleCom, Abc, "k1", <<-1>>),
     CreateBody(ExampleCom, Abc, "", <<>>),
     CreateBody(ExampleCom, Abc, "bad", <<>>),
     CreateBody(ExampleCom, Ab, "k1", <<>>),
     CreateBody(<<>>, Abc, "k1", <<>>),
     CreateBody(HttpX, <<>>, "", <<>>),
     MalformedBody}

FrameGets == {GetRequest(<<"/">> \o Abc, "ua", "")}

NextFrame == Create({"c1"}, FrameBodies) \/ Redirect({"c1"}, FrameGets) \/ Tick

SpecFrame == Init /\ [][NextFrame]_vars

\* The counting specification: one client creates a link of one day under
\* a custom handle and a link under a random code; two clients follow both
\* links at once, their inserts succeeding or failing; the history counts
\* the redirects of each code.
CountBodies ==
    {CreateBody(ExampleCom, Abc, "k1", <<1>>),
     CreateBody(HttpX, <<>>, "", <<>>)}

CountGets == {GetRequest(<<"/">> \o c, "ua", "") : c \in {Abc, GeneratedCode(1)}}

NextCount == Create({"c1"}, CountBodies) \/ Redirect(Procs, CountGets) \/ Tick

SpecCount == InitCount /\ [][NextCount]_vars

\* The legacy specification: one client creates a link of one day under
\* the custom handle "a.js" and a link under a random code, and asks both
\* redirect handlers, the packaged one and the one of main.go, for these
\* codes and for a code that was never created.
LegacyPaths == {<<"/">> \o c : c \in {AJs, Abc, GeneratedCode(1)}}

LegacyBodies ==
    {CreateBody(ExampleCom, AJs, "k1", <<1>>),
     CreateBody(HttpX, <<>>, "", <<>>)}

NextLegacy ==
    \/ Create({"c1"}, LegacyBodies)
    \/ Redirect({"c1"}, {GetRequest(path, "ua", "") : path \in LegacyPaths})
    \/ LegacyRedirect({"c1"}, {LegacyGetRequest(path, "ua", "") : path \in LegacyPaths})
    \/ Tick

SpecLegacy == Init /\ [][NextLegacy]_vars

\* The legacy create specification: one client sends creates to both
\* create handlers, the packaged one and the one of main.go: with and
\* without custom handle, auth code and expiration, in and out of range,
\* with a padded target, without a target and with a malformed body.
LegacyCreateBodies ==
    {CreateBody(u, h, a, d) :
        u \in {PaddedHttpX},
        h \in {<<>>, Ab, Abc},
        a \in {"", "k1", "bad"},
        d \in {<<>>, <<0>>, <<1>>, <<MaxExpirationDays + 1>>}}
        \cup {CreateBody(<<>>, Abc, "k1", <<>>), MalformedBody}

NextLegacyCreate ==
    \/ Create({"c1"}, LegacyCreateBodies)
    \/ LegacyCreate({"c1"}, LegacyCreateBodies)
    \/ Tick

SpecLegacyCreate == Init /\ [][NextLegacyCreate]_vars

\* The duration specification: one client creates links under a custom
\* handle with the expirations at the edges of the accepted range, beyond
\* it, and at the first number of days whose nanoseconds pass 2^63; and a
\* link under a random code.
FirstOverflowingDays == 106752

DurationDays ==
    {<<>>, <<-1>>, <<0>>, <<1>>, <<2>>, <<DefaultExpirationDays>>,
     <<MaxExpirationDays - 1>>, <<MaxExpirationDays>>, <<MaxExpirationDays + 1>>,
     <<FirstOverflowingDays - 1>>, <<FirstOverflowingDays>>}

DurationBodies ==
    {CreateBody(ExampleCom, Abc, a, d) : a \in {"k1", "bad"}, d \in DurationDays}
        \cup {CreateBody(ExampleCom, <<>>, a, d) : a \in {"", "k1"}, d \in {<<>>, <<0>>}}

NextDuration == Create({"c1"}, DurationBodies)

SpecDuration == Init /\ [][NextDuration]_vars

\* The reference reading of the requests and responses the claims speak of.
InAllowList(code) == code \in {ValidAuthCodes[i] : i \in DOMAIN ValidAuthCodes}

OutIsCreate == out.req.kind = "create"

OutIsRedirect == out.req.kind = "redirect"

\* C1: of two concurrent creates of one free custom handle exactly one is
\* answered 200 and the other 409: a create that comes to write its custom
\* handle when the other request has already reserved it (the handle is
\* live) is never answered 200.
C1_ExactlyOneCreateWins ==
    [][\A p \in Procs :
          (/\ pc[p] = "set"
           /\ req[p].custom_handle # <<>>
           /\ Live(req[p].custom_handle)
           /\ pc'[p] = "idle")
          => out'.resp.status # StatusOK]_vars

\* C2: a code is reserved once while live: no step, of whatever create,
\* replaces the target of a code that is present and not expired.
C2_LiveTargetNeverReplaced ==
    [][\A c \in DOMAIN rdb :
          Live(c) => (c \in DOMAIN rdb' /\ rdb'[c].value = rdb[c].value)]_vars

\* C7: a link stored without TTL resolves to the target it was created
\* with in every later state: once a key is persistent, no later step, of
\* the clock or of another request, changes or removes its entry.
C7_PersistentLinkStays ==
    [][\A c \in DOMAIN rdb :
          rdb[c].expireAt = Persistent
          => (c \in DOMAIN rdb' /\ rdb'[c] = rdb[c])]_vars

\* The code in a short URL, and the code a path asks for.
CodeOfShortURL(url) == TrimPrefix(url, ShortURL(<<>>))

CodeOfPath(path) == TrimPrefix(path, <<"/">>)

SchemeLess(url) == ~HasPrefix(url, HttpScheme) /\ ~HasPrefix(url, HttpsScheme)

\* Every redirect response is a 301 to the target the lookup returned.
RedirectAnswersLookup ==
    \A q \in Procs, ok \in BOOLEAN :
        RecordClick(q, ok)
        => /\ out'.resp.status = StatusMovedPermanently
           /\ out'.resp.location = loc[q].longURL

\* C3 as stated: after a create without custom handle whose long_url has
\* no scheme, the GET of the returned code that follows it is answered 301
\* with Location "https://" followed by the long_url as it was sent.
C3_RoundTripVerbatim ==
    [][/\ \A q \in Procs, get \in RedirectGets :
            (/\ OutIsCreate
             /\ out.resp.status = StatusOK
             /\ out.req.custom_handle = <<>>
             /\ SchemeLess(out.req.long_url)
             /\ get.path = <<"/">> \o CodeOfShortURL(out.resp.short_url)
             /\ RedirectToLongURL(q, get, TRUE))
            => /\ pc'[q] = "insert"
               /\ loc'[q].longURL = HttpsScheme \o out.req.long_url
       /\ RedirectAnswersLookup]_vars

\* C3 as amended: after a create without custom handle whose long_url,
\* trimmed of surrounding whitespace, has no scheme, the GET of the returned
\* code that follows it (the lookup answering) is answered 301 with Location
\* "https://" followed by the trimmed long_url.
C3_RoundTripTrimmed ==
    [][/\ \A q \in Procs, get \in RedirectGets :
            (/\ OutIsCreate
             /\ out.resp.status = StatusOK
             /\ out.req.custom_handle = <<>>
             /\ SchemeLess(TrimSpace(out.req.long_url))
             /\ get.path = <<"/">> \o CodeOfShortURL(out.resp.short_url)
             /\ RedirectToLongURL(q, get, TRUE))
            => /\ pc'[q] = "insert"
               /\ loc'[q].longURL = HttpsScheme \o TrimSpace(out.req.long_url)
       /\ RedirectAnswersLookup]_vars

\* C3 witness: the redirect of a generated code has answered 301 with the
\* https target of a padded, scheme-less long_url.
C3_Witness ==
    /\ OutIsRedirect
    /\ out.req.path = <<"/">> \o GeneratedCode(1)
    /\ out.resp.status = StatusMovedPermanently
    /\ out.resp.location = HttpsScheme \o TrimSpace(PaddedCom)

\* C4: a redirect request for a known code (live in the link store when
\* the handler is called, the lookup and the insert succeeding) is answered
\* 301 with the stored target and adds exactly one row for the code to the
\* click log, after every earlier row.
C4_KnownCodeRedirects ==
    [][/\ \A p \in Procs, get \in RedirectGets :
            (RedirectToLongURL(p, get, TRUE) /\ Live(CodeOfPath(get.path)))
            => /\ pc'[p] = "insert"
               /\ loc'[p].longURL = rdb[CodeOfPath(get.path)].value
       /\ \A p \in Procs :
            RecordClick(p, TRUE)
            => /\ out'.resp.status = StatusMovedPermanently
               /\ out'.resp.location = loc[p].longURL
               /\ Len(clicks') = Len(clicks) + 1
               /\ SubSeq(clicks', 1, Len(clicks)) = clicks
               /\ clicks'[Len(clicks')].short_code = CodeOfPath(req[p].path)]_vars

\* C5: a redirect request for an unknown code (the lookup answering that
\* the key is absent or expired) is answered 404 at once, and the click log
\* is left as it was.
C5_UnknownCodeNotFound ==
    [][\A p \in Procs, get \in RedirectGets :
          (RedirectToLongURL(p, get, TRUE) /\ ~Live(CodeOfPath(get.path)))
          => /\ out'.req = get
             /\ out'.resp.status = StatusNotFound
             /\ pc'[p] = "idle"
             /\ clicks' = clicks]_vars

\* C5 witness: a code that has expired was asked for, after a click was
\* recorded, and the answer was 404.
C5_Witness ==
    /\ OutIsRedirect
    /\ out.resp.status = StatusNotFound
    /\ out.req.path = <<"/">> \o GeneratedCode(1)
    /\ GeneratedCode(1) \in DOMAIN rdb
    /\ ~Live(GeneratedCode(1))
    /\ clicks # <<>>

\* The claims' own reading of a request: a valid auth code, a handle of
\* valid length, an expiration outside [0, 3650], the reference expiry.
AuthIsValid(body) == body.auth_code # "" /\ InAllowList(body.auth_code)

HandleLengthInRange(handle) == Len(handle) >= 3 /\ Len(handle) <= 30

DaysOutOfRange(days) == days # <<>> /\ (days[1] < 0 \/ days[1] > 3650)

ReferenceExpireAt(days) ==
    IF days = <<>> THEN now + 365 * 24
    ELSE IF days[1] = 0 THEN Persistent
    ELSE now + days[1] * 24

\* A create with a custom handle, a valid auth code and an expiration out
\* of range has been answered, the availability check not having failed.
OutOfRangeAnswered ==
    /\ OutIsCreate
    /\ out.req.valid_json
    /\ out.req.custom_handle # <<>>
    /\ AuthIsValid(out.req)
    /\ DaysOutOfRange(out.req.expiration_days)
    /\ out.resp.status # StatusInternalServerError

C8_CustomExpirationPolicy ==
    (OutIsCreate /\ out.resp.status = StatusOK /\ out.req.custom_handle # <<>>)
    => /\ out.req.custom_handle \in DOMAIN rdb
       /\ rdb[out.req.custom_handle].expireAt = ReferenceExpireAt(out.req.expiration_days)
       /\ \/ out.req.expiration_days = <<>>
          \/ out.req.expiration_days[1] \in 0..3650

\* C8 witness: a custom handle was created with expiration_days = 3650,
\* after the clock had advanced.
C8_Witness ==
    /\ OutIsCreate
    /\ out.resp.status = StatusOK
    /\ out.req.custom_handle = Abc
    /\ out.req.expiration_days = <<3650>>
    /\ now > 0
    /\ rdb[Abc].expireAt = now + 87600

\* C9: a create without custom handle needs no auth code and is answered
\* 200 whatever auth_code and expiration_days it carries, unless the
\* generator or the write fails; the code is a generated one and is stored
\* with the default expiry of 365 days.
C9_RandomCodeDefaultExpiration ==
    (/\ OutIsCreate
     /\ out.req.valid_json
     /\ out.req.long_url # <<>>
     /\ out.req.custom_handle = <<>>)
    => \/ /\ out.resp.status = StatusInternalServerError
          /\ out.resp.error \in {"Error generating short code", "Error storing URL"}
       \/ /\ out.resp.status = StatusOK
          /\ CodeOfShortURL(out.resp.short_url) \in {GeneratedCode(n) : n \in 1..sidCount}
          /\ CodeOfShortURL(out.resp.short_url) \in DOMAIN rdb
          /\ rdb[CodeOfShortURL(out.resp.short_url)].expireAt = now + 365 * 24

\* C9 witness: a create without handle that carried an invalid auth code
\* and a negative expiration_days was answered 200.
C9_Witness ==
    /\ OutIsCreate
    /\ out.req.custom_handle = <<>>
    /\ out.req.auth_code = "bad"
    /\ out.req.expiration_days = <<-1>>
    /\ out.resp.status = StatusOK

\* C10 as stated, its consequence: a create with a custom handle and no
\* valid auth code is always answered 401.
C10_NoValidAuthAlways401 ==
    (OutIsCreate /\ out.req.valid_json /\ out.req.custom_handle # <<>>
        /\ ~AuthIsValid(out.req))
    => out.resp.status = StatusUnauthorized

\* C10 as amended: for a create with a non-empty long_url and a custom
\* handle the checks run in a fixed order and the first that fails decides:
\* no auth code 401, an auth code not in the allow-list 401, a handle of
\* invalid length 400 (a step that answers at once, leaving every position
\* unchanged), and only a request that passed all three reaches the
\* availability check, where a taken handle is answered 409; no custom
\* handle is written without a valid auth code.
C10_ChecksInOrder ==
    [][/\ (/\ out'.req.kind = "create"
           /\ pc' = pc
           /\ out'.req.valid_json
           /\ out'.req.long_url # <<>>
           /\ out'.req.custom_handle # <<>>)
          => IF out'.req.auth_code = ""
             THEN /\ out'.resp.status = StatusUnauthorized
                  /\ out'.resp.error = "Authorization code required for custom handle."
             ELSE IF ~InAllowList(out'.req.auth_code)
             THEN /\ out'.resp.status = StatusUnauthorized
                  /\ out'.resp.error = "Invalid authorization code."
             ELSE /\ ~HandleLengthInRange(out'.req.custom_handle)
                  /\ out'.resp.status = StatusBadRequest
                  /\ out'.resp.error = "Custom handle must be between 3 and 30 characters."
       /\ \A p \in Procs :
            (pc[p] = "idle" /\ pc'[p] = "exists")
            => /\ AuthIsValid(req'[p])
               /\ HandleLengthInRange(req'[p].custom_handle)
       /\ \A p \in Procs :
            (CreateExists(p, TRUE) /\ Live(req[p].custom_handle))
            => out'.resp.status = StatusConflict
       /\ \A p \in Procs :
            (pc[p] = "set" /\ req[p].custom_handle # <<>> /\ rdb' # rdb)
            => AuthIsValid(req[p])]_vars

\* C10 witness: a taken handle of invalid length, asked for with an auth
\* code that is not in the allow-list, was answered 401.
C10_Witness ==
    /\ OutIsCreate
    /\ out.req.long_url # <<>>
    /\ out.req.custom_handle = Ab
    /\ out.req.auth_code = "bad"
    /\ Live(Abc)
    /\ out.resp.status = StatusUnauthorized

\* C11: a create with a valid auth code and a custom handle shorter than 3
\* or longer than 30 characters is answered 400, and every custom handle in
\* the link store has between 3 and 30 characters.
C11_CustomHandleWithinBounds ==
    /\ (/\ OutIsCreate
         /\ out.req.valid_json
         /\ out.req.long_url # <<>>
         /\ out.req.custom_handle # <<>>
         /\ AuthIsValid(out.req)
         /\ ~HandleLengthInRange(out.req.custom_handle))
        => out.resp.status = StatusBadRequest
    /\ \A c \in DOMAIN rdb :
          c \notin {GeneratedCode(n) : n \in 1..sidCount} => HandleLengthInRange(c)

\* A create with a custom handle and a valid auth code has been answered
\* by the step, without a store call, while the handle was live.
AnsweredAtOnceOnLiveHandle ==
    /\ pc' = pc
    /\ out'.req.kind = "create"
    /\ out'.req.valid_json
    /\ out'.req.custom_handle # <<>>
    /\ AuthIsValid(out'.req)
    /\ Live(out'.req.custom_handle)

\* The availability check of a request that runs alone has answered, the
\* handle being live.
AvailabilityCheckedOnLiveHandle(p) ==
    /\ CreateExists(p, TRUE)
    /\ \A q \in Procs \ {p} : pc[q] = "idle"
    /\ Live(req[p].custom_handle)

\* C12 as stated: a create that runs alone, with a valid auth code and a
\* custom handle that is live, is answered 409 and leaves the link store as
\* it was.
C12_LiveHandleAlways409 ==
    [][/\ AnsweredAtOnceOnLiveHandle
          => (out'.resp.status = StatusConflict /\ rdb' = rdb)
       /\ \A p \in Procs :
            AvailabilityCheckedOnLiveHandle(p)
            => (out'.resp.status = StatusConflict /\ rdb' = rdb)]_vars

\* C12 as amended: a create that runs alone, with a non-empty long_url, a
\* valid auth code and a custom handle that is live, is not answered before
\* the availability check, which answers 409 and leaves the link store as
\* it was; with an empty long_url the answer is 400, the store unchanged.
C12_LiveHandle409UnlessNoURL ==
    [][/\ AnsweredAtOnceOnLiveHandle
          => /\ out'.req.long_url = <<>>
             /\ out'.resp.status = StatusBadRequest
             /\ rdb' = rdb
       /\ \A p \in Procs :
            AvailabilityCheckedOnLiveHandle(p)
            => /\ out'.resp.status = StatusConflict
               /\ out'.req = req[p]
               /\ rdb' = rdb]_vars

\* C12 witness: a successful create of a handle without expiry was
\* repeated with the same input and answered 409, the entry still there.
C12_Witness ==
    /\ OutIsCreate
    /\ out.resp.status = StatusConflict
    /\ out.req = CreateBody(ExampleCom, Abc, "k1", <<0>>)
    /\ rdb[Abc] = [value |-> HttpsScheme \o ExampleCom, expireAt |-> Persistent]

\* C13: a create whose long_url is empty or missing is answered 400 by a
\* step that writes nothing to the link store and takes no code from the
\* generator, whatever its other fields are, and no such request goes on to
\* a store call; a create with a non-empty long_url and no custom handle
\* is answered 200 with the short URL of a generated code, unless the
\* generator or the write fails.
C13_EmptyURLRefused ==
    [][/\ (out'.req.kind = "create" /\ out'.req.long_url = <<>>)
          => /\ out'.resp.status = StatusBadRequest
             /\ pc' = pc
             /\ rdb' = rdb
             /\ sidCount' = sidCount
       /\ \A p \in Procs :
            (pc'[p] \in {"exists", "set"}) => req'[p].long_url # <<>>
       /\ (/\ out'.req.kind = "create"
           /\ out'.req.valid_json
           /\ out'.req.long_url # <<>>
           /\ out'.req.custom_handle = <<>>)
          => \/ /\ out'.resp.status = StatusOK
                /\ out'.resp.short_url \in {ShortURL(GeneratedCode(n)) : n \in 1..sidCount}
             \/ /\ out'.resp.status = StatusInternalServerError
                /\ out'.resp.error \in {"Error generating short code", "Error storing URL"}]_vars

\* C13 witness: a create with an empty long_url that carried a free custom
\* handle and a valid auth code was answered 400.
C13_Witness ==
    /\ OutIsCreate
    /\ out.req = CreateBody(<<>>, Abc, "k1", <<>>)
    /\ Abc \notin DOMAIN rdb
    /\ out.resp.status = StatusBadRequest
    /\ out.resp.error = "URL is required"

\* C14: for every long URL without a scheme (trimmed of surrounding
\* whitespace it starts neither with "http://" nor with "https://") the
\* normalized target the handler computes starts with "https://", and every
\* target in the link store starts with "http://" or "https://".
C14_TargetsHaveScheme ==
    /\ \A p \in Procs :
          (pc[p] \in {"exists", "set"} /\ SchemeLess(TrimSpace(req[p].long_url)))
          => HasPrefix(loc[p].normalizedURL, HttpsScheme)
    /\ (/\ OutIsCreate
         /\ out.resp.status = StatusOK
         /\ SchemeLess(TrimSpace(out.req.long_url)))
        => HasPrefix(rdb[CodeOfShortURL(out.resp.short_url)].value, HttpsScheme)
    /\ \A c \in DOMAIN rdb :
          HasPrefix(rdb[c].value, HttpScheme) \/ HasPrefix(rdb[c].value, HttpsScheme)

\* C14 witness: a padded long_url without scheme was written to the link
\* store with the https scheme, next to a target that came with http.
C14_Witness ==
    /\ OutIsCreate
    /\ out.resp.status = StatusOK
    /\ out.req.long_url = PaddedCom
    /\ rdb[CodeOfShortURL(out.resp.short_url)].value = HttpsScheme \o ExampleCom
    /\ \E c \in DOMAIN rdb : rdb[c].value = HttpX

\* C15: a failure of the click insert does not change the redirect: the
\* lookup having found a target, the response is 301 to that target whether
\* the insert succeeds or fails, it carries no error, and a failed insert
\* leaves the click log as it was.
C15_InsertFailureSwallowed ==
    [][/\ \A p \in Procs :
            (pc[p] = "idle" /\ pc'[p] = "insert")
            => /\ Live(loc'[p].code)
               /\ loc'[p].longURL = rdb[loc'[p].code].value
       /\ \A p \in Procs, ok \in BOOLEAN :
            RecordClick(p, ok)
            => /\ out'.req = req[p]
               /\ out'.resp.status = StatusMovedPermanently
               /\ out'.resp.location = loc[p].longURL
               /\ "error" \notin DOMAIN out'.resp
               /\ ~ok => clicks' = clicks]_vars

\* C15 witness: a redirect whose insert failed was answered 301 with the
\* stored target, the click log still empty.
C15_Witness ==
    /\ OutIsRedirect
    /\ out.resp.status = StatusMovedPermanently
    /\ out.resp.errExec = "error"
    /\ out.resp.location = HttpsScheme \o ExampleCom
    /\ clicks = <<>>

\* The reading of a statistics exchange: the code asked for, and the rows
\* the click log holds for it.
OutIsStats == out.req.kind = "stats"

CodeOfStatsPath(path) == SubSeq(path, Len(StatsPrefix) + 1, Len(path))

RowsOf(code) == {i \in 1..Len(clicks) : clicks[i].short_code = code}

\* C16: a statistics request for a code without click rows, the query
\* succeeding, is answered 200 with total_clicks = 0 and an empty list of
\* clicks, whether or not the code is in the link store.
C16_NoClicksEmptyList ==
    (/\ OutIsStats
     /\ out.resp.status = StatusOK
     /\ RowsOf(CodeOfStatsPath(out.req.path)) = {})
    => /\ out.resp.total_clicks = 0
       /\ out.resp.clicks = [json |-> "array", items |-> <<>>]

\* What a statistics response shows of a row of the click log.
RowDetail(i) ==
    [timestamp |-> clicks[i].timestamp,
     user_agent |-> clicks[i].user_agent,
     referrer |-> clicks[i].referrer]

\* The list is made of the rows of the code, each of them once.
ExactlyRowsOf(items, code) ==
    \E f \in [DOMAIN items -> RowsOf(code)] :
        /\ \A i \in RowsOf(code) : \E j \in DOMAIN items : f[j] = i
        /\ \A j, k \in DOMAIN items : j # k => f[j] # f[k]
        /\ \A j \in DOMAIN items : items[j] = RowDetail(f[j])

\* C17: a successful statistics response lists exactly the rows of the
\* click log whose short_code is the code asked for, none before a row of
\* a later timestamp, and total_clicks is the number of rows listed.
C17_StatsListsRowsOfCode ==
    (OutIsStats /\ out.resp.status = StatusOK)
    => /\ out.resp.short_code = CodeOfStatsPath(out.req.path)
       /\ ExactlyRowsOf(out.resp.clicks.items, CodeOfStatsPath(out.req.path))
       /\ \A j, k \in DOMAIN out.resp.clicks.items :
             j < k => out.resp.clicks.items[j].timestamp >= out.resp.clicks.items[k].timestamp
       /\ out.resp.total_clicks = Len(out.resp.clicks.items)

\* C17 witness: the statistics of a code clicked at two moments list the
\* later click first.
C17_Witness ==
    /\ OutIsStats
    /\ out.resp.status = StatusOK
    /\ out.resp.total_clicks = 2
    /\ out.resp.clicks.items[1].timestamp > out.resp.clicks.items[2].timestamp

\* C18: the click log is append-only: no step of a create, a redirect, a
\* statistics or a validate-auth request, or of the clock, changes or
\* removes a row, and a step that adds a row adds one row, for the code of
\* a redirect that found its target and is answered 301 by that step.
C18_ClickLogAppendOnly ==
    [][/\ Len(clicks') >= Len(clicks)
       /\ SubSeq(clicks', 1, Len(clicks)) = clicks
       /\ clicks' # clicks
          => /\ Len(clicks') = Len(clicks) + 1
             /\ \E p \in Procs :
                   /\ pc[p] = "insert"
                   /\ req[p].kind = "redirect"
                   /\ clicks'[Len(clicks')].short_code = loc[p].code
                   /\ out'.req = req[p]
                   /\ out'.resp.status = StatusMovedPermanently
                   /\ out'.resp.location = loc[p].longURL]_vars

\* C18 witness: the row of a link that has since expired is still first in
\* the click log after the redirect of another code added its row.
C18_Witness ==
    /\ OutIsRedirect
    /\ out.resp.status = StatusMovedPermanently
    /\ Len(clicks) = 2
    /\ clicks[1].short_code = Abc
    /\ clicks[2].short_code = GeneratedCode(1)
    /\ Abc \in DOMAIN rdb
    /\ ~Live(Abc)

\* The TTL of the link of a code has elapsed.
Expired(code) ==
    /\ code \in DOMAIN rdb
    /\ rdb[code].expireAt # Persistent
    /\ now >= rdb[code].expireAt

\* C19: once the TTL of a link has elapsed, a redirect for its code is
\* answered 404 and adds no click row, and a create with a valid auth code
\* that asks for the code as custom handle passes the availability check
\* and, its expiration accepted and the write succeeding, is answered 200
\* with the code mapped to the new target.
C19_ExpiredCodeReusable ==
    [][/\ \A p \in Procs, get \in StatsGets :
            (RedirectToLongURL(p, get, TRUE) /\ Expired(CodeOfPath(get.path)))
            => /\ out'.req = get
               /\ out'.resp.status = StatusNotFound
               /\ clicks' = clicks
       /\ \A p \in Procs :
            (/\ CreateExists(p, TRUE)
             /\ Expired(req[p].custom_handle)
             /\ (req[p].expiration_days = <<>> \/ req[p].expiration_days[1] \in 0..3650))
            => pc'[p] = "set"
       /\ \A p \in Procs :
            (CreateSet(p, TRUE) /\ req[p].custom_handle # <<>>)
            => /\ out'.req = req[p]
               /\ out'.resp.status = StatusOK
               /\ out'.resp.short_url = ShortURL(req[p].custom_handle)
               /\ req[p].custom_handle \in DOMAIN rdb'
               /\ rdb'[req[p].custom_handle].value = loc[p].normalizedURL
               /\ rdb'[req[p].custom_handle].expireAt
                      = ReferenceExpireAt(req[p].expiration_days)]_vars

\* C19 witness: a handle that was clicked under an earlier link, since
\* expired, has been created again and maps to the new target.
C19_Witness ==
    /\ OutIsCreate
    /\ out.resp.status = StatusOK
    /\ out.req.custom_handle = Abc
    /\ clicks # <<>>
    /\ clicks[1].short_code = Abc
    /\ clicks[1].timestamp < now
    /\ rdb[Abc] = [value |-> HttpX, expireAt |-> now + 24]

\* C20: click rows outlive their link: neither the clock, when a link
\* expires, nor the write of a create, when a code is used again, touches
\* the click log, and a successful statistics response lists every row the
\* log holds for the code, those of an earlier link of the code included,
\* whether the code is live, expired or was never created.
C20_ClicksOutliveLink ==
    [][/\ (Tick \/ \E p \in Procs, ok \in BOOLEAN : CreateSet(p, ok))
          => clicks' = clicks
       /\ (out'.req.kind = "stats" /\ out'.resp.status = StatusOK)
          => /\ clicks' = clicks
             /\ out'.resp.total_clicks = Cardinality(RowsOf(CodeOfStatsPath(out'.req.path)))
             /\ \A i \in RowsOf(CodeOfStatsPath(out'.req.path)) :
                   \E j \in DOMAIN out'.resp.clicks.items :
                       out'.resp.clicks.items[j] = RowDetail(i)]_vars

\* C20 witness: the statistics of a handle that expired and was created
\* again list the click of the earlier link after the click of the new
\* one.
C20_Witness ==
    /\ OutIsStats
    /\ out.req = StatsRequest(Abc)
    /\ out.resp.status = StatusOK
    /\ out.resp.total_clicks = 2
    /\ out.resp.clicks.items[2].timestamp < rdb[Abc].expireAt - 24
    /\ out.resp.clicks.items[1].timestamp >= rdb[Abc].expireAt - 24
    /\ Live(Abc)

\* C21: the validate-auth endpoint reports valid = true exactly for the
\* codes that are non-empty and equal to an entry of the allow-list, and
\* never for the empty code, also when the allow-list has an empty entry.
C21_ValidIffNonEmptyAndListed ==
    (out.req.kind = "validate-auth")
    => /\ out.resp.valid
            <=> (/\ out.req.valid_json
                 /\ out.req.auth_code # ""
                 /\ InAllowList(out.req.auth_code))
       /\ out.resp.valid => out.resp.status = StatusOK
       /\ out.req.auth_code = "" => out.resp.status = StatusBadRequest

\* C21 witness: the empty code was refused although the allow-list has an
\* empty entry.
C21_Witness ==
    /\ out.req.kind = "validate-auth"
    /\ out.req.valid_json
    /\ out.req.auth_code = ""
    /\ InAllowList("")
    /\ ~out.resp.valid

\* C22: a failure of a store call in create is answered 500 and never
\* 200: when the availability check fails nothing is written, when the
\* write fails no short_url is returned, and when the generation of a random
\* code fails nothing is written.
C22_CreateFailuresAre500 ==
    [][/\ \A p \in Procs :
            CreateExists(p, FALSE)
            => /\ out'.req = req[p]
               /\ out'.resp.status = StatusInternalServerError
               /\ out'.resp.error = "Error checking custom handle availability."
               /\ pc'[p] = "idle"
               /\ rdb' = rdb
       /\ \A p \in Procs :
            CreateSet(p, FALSE)
            => /\ out'.req = req[p]
               /\ out'.resp.status = StatusInternalServerError
               /\ out'.resp.error = "Error storing URL"
               /\ "short_url" \notin DOMAIN out'.resp
               /\ pc'[p] = "idle"
       /\ (/\ out'.req.kind = "create"
           /\ out'.resp.status = StatusInternalServerError
           /\ out'.resp.error = "Error generating short code")
          => /\ pc' = pc
             /\ rdb' = rdb
             /\ "short_url" \notin DOMAIN out'.resp]_vars

\* C22 witness: the write of a custom handle failed, the request was
\* answered 500 and the handle is not in the link store.
C22_Witness ==
    /\ OutIsCreate
    /\ out.req.custom_handle = Abc
    /\ out.resp.status = StatusInternalServerError
    /\ out.resp.error = "Error storing URL"
    /\ Abc \notin DOMAIN rdb

\* C23: a redirect whose lookup in the link store fails with an error of
\* the store is answered 500, whether or not the code is live, and adds no
\* click row.
C23_LookupErrorIs500 ==
    [][\A p \in Procs, get \in RedirectGets :
          (RedirectToLongURL(p, get, FALSE) /\ ~SkippedPath(get.path))
          => /\ out'.req = get
             /\ out'.resp.status = StatusInternalServerError
             /\ out'.resp.error = "Error retrieving URL"
             /\ pc'[p] = "idle"
             /\ clicks' = clicks]_vars

\* C23 witness: the lookup of a live code failed and the redirect was
\* answered 500, the click log empty.
C23_Witness ==
    /\ OutIsRedirect
    /\ out.resp.status = StatusInternalServerError
    /\ Live(CodeOfPath(out.req.path))
    /\ clicks = <<>>

\* A request in flight keeps its place or moves on: from the availability
\* check to the write or to the response, from the write or from the click
\* insert to the response only, and the response is that of the request.
MovesForward(p) ==
    /\ pc[p] = "exists" => pc'[p] \in {"exists", "set", "idle"}
    /\ pc[p] = "set" => pc'[p] \in {"set", "idle"}
    /\ pc[p] = "insert" => pc'[p] \in {"insert", "idle"}
    /\ (pc[p] # "idle" /\ pc'[p] = pc[p]) => (req'[p] = req[p] /\ loc'[p] = loc[p])
    /\ (pc[p] # "idle" /\ pc'[p] # "idle") => req'[p] = req[p]
    /\ (pc[p] # "idle" /\ pc'[p] = "idle") => out'.req = req[p]
    /\ (pc[p] = "idle" /\ pc'[p] # "idle") => out' = NoExchange

\* Every store call is made once and its failure ends the request: the
\* step that makes the call leaves the position of the call, to the
\* response when the call fails.
NoRetry(p) ==
    /\ \A ok \in BOOLEAN : CreateExists(p, ok) => pc'[p] # "exists"
    /\ \A ok \in BOOLEAN : CreateSet(p, ok) => pc'[p] = "idle"
    /\ \A ok \in BOOLEAN : RecordClick(p, ok) => pc'[p] = "idle"
    /\ CreateExists(p, FALSE) => pc'[p] = "idle"
    /\ \A get \in SinglePassGets :
          RedirectToLongURL(p, get, FALSE) => (pc'[p] = "idle" /\ out'.req = get)
    /\ \A get \in SinglePassStats, r \in {"ok", "query error", "rows error"} :
          GetLinkStatsHandler(p, get, r) => (pc'[p] = "idle" /\ out'.req = get)

\* Every request in flight is answered.
EveryRequestAnswered == \A p \in Procs : (pc[p] # "idle") ~> (pc[p] = "idle")

RedirectJustAnswered ==
    /\ OutIsRedirect
    /\ out.resp.status = StatusMovedPermanently
    /\ out.resp.errExec = "nil"

\* C25: the click insert of a redirect is complete when its 301 is sent:
\* the row of the click is the last of the log in the state of the
\* response, and a statistics request for the code that starts then, its
\* query succeeding, lists that row.
C25_InsertBeforeResponse ==
    [][/\ \A p \in Procs :
            RecordClick(p, TRUE)
            => /\ out'.resp.status = StatusMovedPermanently
               /\ Len(clicks') = Len(clicks) + 1
               /\ clicks'[Len(clicks')].short_code = CodeOfPath(req[p].path)
       /\ \A p \in Procs, get \in StatsRequests :
            (/\ RedirectJustAnswered
             /\ CodeOfStatsPath(get.path) = CodeOfPath(out.req.path)
             /\ GetLinkStatsHandler(p, get, "ok"))
            => /\ clicks # <<>>
               /\ clicks[Len(clicks)].short_code = CodeOfPath(out.req.path)
               /\ \E j \in DOMAIN out'.resp.clicks.items :
                     out'.resp.clicks.items[j] = RowDetail(Len(clicks))]_vars

\* C25 witness: a redirect has been answered 301 and its row is the second
\* of the click log.
C25_Witness ==
    /\ RedirectJustAnswered
    /\ Len(clicks) = 2
    /\ clicks[2].short_code = CodeOfPath(out.req.path)
    /\ clicks[2].timestamp = now

\* Two lists of click details are the same but for the order of the rows
\* of one timestamp, which the query leaves to the database.
SameUpToTies(a, b) ==
    /\ Len(a) = Len(b)
    /\ \A j \in DOMAIN a : a[j].timestamp = b[j].timestamp
    /\ \A j \in DOMAIN a :
          Cardinality({k \in DOMAIN a : a[k] = a[j]})
              = Cardinality({k \in DOMAIN b : b[k] = a[j]})

\* C26: reads are pure. A statistics request leaves the link store and the
\* click log as they are, and asked again for the same code right after a
\* successful answer, its query succeeding again, it gives the same code,
\* the same total and the same rows, in the same order of timestamps; the
\* click log changes in no step but a redirect's successful insert, so
\* that nothing but a redirect comes between two different results. No
\* step of a redirect changes the link store, neither a target nor the
\* time a key expires. A validate-auth request changes neither store.
C26_ReadsArePure ==
    [][/\ OutIsStats' => rdb' = rdb /\ clicks' = clicks
       /\ (/\ OutIsStats
           /\ out.resp.status = StatusOK
           /\ OutIsStats'
           /\ out'.req = out.req
           /\ out'.resp.status = StatusOK)
          => /\ out'.resp.short_code = out.resp.short_code
             /\ out'.resp.total_clicks = out.resp.total_clicks
             /\ out'.resp.clicks.json = out.resp.clicks.json
             /\ SameUpToTies(out'.resp.clicks.items, out.resp.clicks.items)
       /\ clicks' # clicks => \E p \in Procs : RecordClick(p, TRUE)
       /\ (\/ OutIsRedirect'
           \/ \E p \in Procs : pc'[p] = "insert" /\ pc[p] = "idle")
          => rdb' = rdb
       /\ out'.req.kind = "validate-auth" => rdb' = rdb /\ clicks' = clicks]_vars

\* C26 witness: a statistics request has been answered with the two clicks
\* of a link that is live with a TTL, both of one timestamp.
C26_Witness ==
    /\ OutIsStats
    /\ out.resp.status = StatusOK
    /\ out.resp.total_clicks = 2
    /\ clicks[1].timestamp = clicks[2].timestamp
    /\ Live(CodeOfStatsPath(out.req.path))
    /\ rdb[CodeOfStatsPath(out.req.path)].expireAt # Persistent

\* C27: the timestamps of the click log do not decrease in the order of
\* insertion, and a successful statistics response places none of two
\* rows of its code with different timestamps, the earlier-inserted one,
\* before the later-inserted one.
C27_TimestampsFollowInsertion ==
    /\ \A i, j \in 1..Len(clicks) :
          i < j => clicks[i].timestamp <= clicks[j].timestamp
    /\ (OutIsStats /\ out.resp.status = StatusOK)
       => \A i1, i2 \in RowsOf(CodeOfStatsPath(out.req.path)) :
             (i1 < i2 /\ clicks[i1].timestamp # clicks[i2].timestamp)
             => \A j, k \in DOMAIN out.resp.clicks.items :
                   (/\ out.resp.clicks.items[j] = RowDetail(i1)
                    /\ out.resp.clicks.items[k] = RowDetail(i2))
                   => k < j

\* C27 witness: a statistics response lists two clicks of its code that
\* were inserted at different times, the later one first.
C27_Witness ==
    /\ OutIsStats
    /\ out.resp.status = StatusOK
    /\ out.resp.total_clicks = 2
    /\ clicks[1].timestamp < clicks[2].timestamp
    /\ out.resp.clicks.items[1] = RowDetail(2)
    /\ out.resp.clicks.items[2] = RowDetail(1)

\* C28: the short_url of a successful create is the scheme, "://", the
\* configured domain, "/" and the code, and the code is the key the
\* request has just written its target under, the only key the write
\* touches.
C28_ShortURLNamesWrittenKey ==
    [][\A p \in Procs :
          CreateSet(p, TRUE)
          => \E code \in DOMAIN rdb' :
                /\ out'.resp.status = StatusOK
                /\ out'.resp.short_url
                      = Scheme \o <<":", "/", "/">> \o Domain \o <<"/">> \o code
                /\ code = loc[p].codeToUse
                /\ rdb'[code].value = loc[p].normalizedURL
                /\ \A c \in DOMAIN rdb' :
                      c # code => c \in DOMAIN rdb /\ rdb'[c] = rdb[c]
                /\ \A c \in DOMAIN rdb : c \in DOMAIN rdb']_vars

\* C28 witness: a create under a random code has succeeded while another
\* key is in the store, and the store holds its target under that code.
C28_Witness ==
    /\ OutIsCreate
    /\ out.resp.status = StatusOK
    /\ out.resp.short_url
          = Scheme \o <<":", "/", "/">> \o Domain \o <<"/">> \o GeneratedCode(1)
    /\ GeneratedCode(1) \in DOMAIN rdb
    /\ rdb[GeneratedCode(1)].value = NormalizeURL(out.req.long_url)
    /\ Abc \in DOMAIN rdb

OutIsHealth == out.req.kind = "health"

\* C29: the health endpoint reports the connectivity of the store. With
\* the PING answered, it replies 200 with status "ok" and a redis entry of
\* status "ok"; with the client not initialized or the PING failing, it
\* replies 503 with a redis entry of status "error"; and it changes
\* neither the link store nor the click log.
C29_HealthReportsStore ==
    [][\A p \in Procs, client \in RedisClients :
          healthCheck(p, HealthRequest, client)
          => /\ rdb' = rdb
             /\ clicks' = clicks
             /\ OutIsHealth'
             /\ IF client = "ok"
                THEN /\ out'.resp.status = StatusOK
                     /\ out'.resp.body.status = "ok"
                     /\ out'.resp.body.redis.status = "ok"
                ELSE /\ out'.resp.status = StatusServiceUnavailable
                     /\ out'.resp.body.redis.status = "error"]_vars

\* C29 witness: the health endpoint has answered 503 with a redis entry
\* of status "error" while the link store and the click log hold entries.
C29_Witness ==
    /\ OutIsHealth
    /\ out.resp.status = StatusServiceUnavailable
    /\ out.resp.body.redis.status = "error"
    /\ Abc \in DOMAIN rdb
    /\ clicks # <<>>

\* C30: every custom handle that create accepts is resolvable. The path of
\* every live key of the link store is routed to the redirect handler and
\* passes its path filter, and no GET of the path of a live key is
\* answered by the health endpoint.
C30_AcceptedHandleResolvable ==
    /\ \A h \in DOMAIN rdb :
          Live(h) => /\ Route(<<"/">> \o h) = "redirect"
                     /\ ~SkippedPath(<<"/">> \o h)
    /\ OutIsHealth => ~Live(CodeOfPath(out.req.path))

\* A step of the create handler of connection p: it answers a create
\* request or goes on to the availability check or to the write.
CreateStep(p) ==
    \/ out'.req.kind = "create"
    \/ pc'[p] \in {"exists", "set"} /\ pc'[p] # pc[p]

\* C31: a create request answered 400, 401 or 409 leaves the link store
\* and the click log as they were, and no step of a create request,
\* whatever its outcome, changes the click log.
C31_RefusedCreateChangesNothing ==
    [][/\ (/\ out'.req.kind = "create"
           /\ out'.resp.status \in {StatusBadRequest, StatusUnauthorized, StatusConflict})
          => rdb' = rdb /\ clicks' = clicks
       /\ \A p \in Procs : CreateStep(p) => clicks' = clicks]_vars

\* C31 witness: a create of a live handle has been answered 409 over a
\* click log that holds a row.
C31_Witness ==
    /\ OutIsCreate
    /\ out.resp.status = StatusConflict
    /\ Live(out.req.custom_handle)
    /\ clicks # <<>>

\* The redirect requests for a code that have found its target and have
\* not yet come to their insert, and the codes the history or the click
\* log knows.
Inflight(code) == Cardinality({p \in Procs : pc[p] = "insert" /\ loc[p].code = code})

CountedCodes ==
    (DOMAIN hist.resolved) \cup {clicks[i].short_code : i \in 1..Len(clicks)}

\* C32: no click is lost under concurrency. Of the redirect requests that
\* found the target of a code, however they overlap, each one that has
\* come to its insert has been answered 301 and has left exactly one row
\* for the code unless its insert failed; the requests for one code that
\* are under way together hold the same target, the one in the store, and
\* a 301 carries that target.
C32_NoClickLost ==
    /\ \A c \in CountedCodes :
          /\ Cardinality(RowsOf(c)) + Count(hist.failed, c) + Inflight(c)
                = Count(hist.resolved, c)
          /\ Count(hist.sent, c) + Inflight(c) = Count(hist.resolved, c)
    /\ \A p \in Procs :
          pc[p] = "insert" => loc[p].longURL = rdb[loc[p].code].value
    /\ (OutIsRedirect /\ out.resp.status = StatusMovedPermanently)
       => out.resp.location = rdb[CodeOfPath(out.req.path)].value

\* C32 witness: of two redirect requests for one code that found its
\* target, the first has been answered 301 and has left its row while the
\* second is about to insert.
C32_Witness ==
    /\ OutIsRedirect
    /\ out.resp.status = StatusMovedPermanently
    /\ out.resp.errExec = "nil"
    /\ CodeOfPath(out.req.path) = Abc
    /\ Inflight(Abc) = 1
    /\ Count(hist.resolved, Abc) = 2
    /\ Cardinality(RowsOf(Abc)) = 1

\* C33 as stated: for every code the rows of the click log are at most
\* the redirect requests that found its target, as many when no insert
\* has failed, and at most the 301 responses sent or under way.
C33_RowsEqualResolved ==
    \A c \in CountedCodes :
       /\ Cardinality(RowsOf(c)) <= Count(hist.resolved, c)
       /\ Total(hist.failed) = 0
          => Cardinality(RowsOf(c)) = Count(hist.resolved, c)
       /\ Cardinality(RowsOf(c)) <= Count(hist.sent, c) + Inflight(c)

\* C33: for every code the rows of the click log are at most the redirect
\* requests that found its target; when no insert has failed they are as
\* many as those of these requests that are past their insert, the
\* requests between lookup and insert having no row yet; and they are at
\* most the 301 responses sent or under way.
C33_RowsBoundedByResolved ==
    \A c \in CountedCodes :
       /\ Cardinality(RowsOf(c)) <= Count(hist.resolved, c)
       /\ Total(hist.failed) = 0
          => Cardinality(RowsOf(c)) = Count(hist.resolved, c) - Inflight(c)
       /\ Cardinality(RowsOf(c)) <= Count(hist.sent, c) + Inflight(c)

\* C33 witness: no insert has failed, and a code has one row for two
\* requests that found its target, the second between lookup and insert.
C33_Witness ==
    /\ Total(hist.failed) = 0
    /\ Cardinality(RowsOf(Abc)) = 1
    /\ Inflight(Abc) = 1
    /\ Count(hist.resolved, Abc) = 2
    /\ Count(hist.sent, Abc) = 1

\* Connection p starts a create request: CreateShortURL answers it or goes
\* on to the availability check; the request it has read.
CreateStarts(p) ==
    /\ pc[p] = "idle"
    /\ \/ pc'[p] = "exists"
       \/ pc'[p] = "idle" /\ out'.req.kind = "create"

StartedCreate(p) == IF pc'[p] = "exists" THEN req'[p] ELSE out'.req

\* C34: create and validate-auth agree on the authorization. A create
\* with a custom handle and a non-empty auth code that follows a
\* validate-auth of the same code passes the auth step (it is not
\* answered 401 and goes on to the availability check) exactly when the
\* validation reported valid = true; and a validate-auth that follows such
\* a create reports valid = true exactly when the create passed.
C34_CreateAgreesWithValidateAuth ==
    [][\A p \in Procs :
          /\ (/\ out.req.kind = "validate-auth"
              /\ out.req.valid_json
              /\ out.req.auth_code # ""
              /\ CreateStarts(p)
              /\ StartedCreate(p).valid_json
              /\ StartedCreate(p).long_url # <<>>
              /\ StartedCreate(p).custom_handle # <<>>
              /\ StartedCreate(p).auth_code = out.req.auth_code)
             => /\ out.resp.valid <=> pc'[p] = "exists"
                /\ ~out.resp.valid
                   <=> (pc'[p] = "idle" /\ out'.resp.status = StatusUnauthorized)
          /\ (/\ OutIsCreate
              /\ out.req.custom_handle # <<>>
              /\ out.req.auth_code # ""
              /\ out'.req.kind = "validate-auth"
              /\ out'.req.valid_json
              /\ out'.req.auth_code = out.req.auth_code)
             => (out'.resp.valid <=> out.resp.status # StatusUnauthorized)]_vars

\* C34 witness: under an allow-list of three entries a link is stored
\* under a custom handle, and the validation of the list's last entry has
\* just reported valid = true.
C34_Witness ==
    /\ out.req.kind = "validate-auth"
    /\ out.req.auth_code = "k2"
    /\ out.resp.valid
    /\ Len(ValidAuthCodes) = 3
    /\ Abc \in DOMAIN rdb

\* C35: the redirect handler of the packaged server and the one of
\* main.go are equivalent. Asked for a path the packaged handler has just
\* answered, the store answering, the handler of main.go answers 404 where
\* the packaged one answered 404, and finds the target of the packaged
\* one's 301 where it answered 301; its insert step answers 301 with the
\* target it found and adds one row for the code, or none when the insert
\* fails, as the packaged one does.
C35_RedirectHandlersEquivalent ==
    [][/\ \A p \in Procs, path \in LegacyPaths :
            (/\ OutIsRedirect
             /\ out.req.path = path
             /\ redirectToLongURL(p, LegacyGetRequest(path, "ua", ""), TRUE))
            => /\ out.resp.status = StatusNotFound
                  => (pc'[p] = "idle" /\ out'.resp.status = StatusNotFound)
               /\ out.resp.status = StatusMovedPermanently
                  => (/\ pc'[p] = "legacy insert"
                      /\ loc'[p].longURL = out.resp.location)
       /\ \A p \in Procs, ok \in BOOLEAN :
            redirectToLongURLInsert(p, ok)
            => /\ out'.resp.status = StatusMovedPermanently
               /\ out'.resp.location = loc[p].longURL
               /\ ok => /\ Len(clicks') = Len(clicks) + 1
                         /\ clicks'[Len(clicks')].short_code = CodeOfPath(req[p].path)
               /\ ~ok => clicks' = clicks]_vars

\* The request that the step of connection p has read or answered.
RequestRead(p) == IF pc'[p] = "idle" THEN out'.req ELSE req'[p]

\* C36: the create handler of the packaged server and the one of main.go
\* are equivalent. In every state, for every request, each step of the one
\* is a step of the other: the same response with the same status and
\* short_url, the same write of code, target and TTL to the link store,
\* the same next store call with the same values.
C36_CreateHandlersEquivalent ==
    [][/\ \A p \in Procs :
            (pc[p] = "idle" /\ RequestRead(p).kind = "create")
            => (CreateShortURL(p, RequestRead(p)) <=> createShortURL(p, RequestRead(p)))
       /\ \A p \in Procs, ok \in BOOLEAN :
            /\ CreateExists(p, ok) <=> createShortURLExists(p, ok)
            /\ CreateSet(p, ok) <=> createShortURLSet(p, ok)]_vars

\* C36 witness: a create of a padded target under a custom handle with an
\* expiration of one day has been answered 200, and the store holds the
\* normalised target under the handle for 24 hours.
C36_Witness ==
    /\ OutIsCreate
    /\ out.resp.status = StatusOK
    /\ out.req.long_url = PaddedHttpX
    /\ out.req.custom_handle = Abc
    /\ out.req.expiration_days = <<1>>
    /\ rdb[Abc].value = HttpX
    /\ rdb[Abc].expireAt = now + 24

\* A duration of so many days fits a signed 64-bit count of nanoseconds:
\* the product in 64 bits is the product in 96 bits, its sign bit clear.
FitsInt64(days) ==
    LET wide == DaysDuration(days, WideBytes)
        cut == DaysDuration(days, Int64Bytes)
    IN
    /\ \A i \in 0..(WideBytes - 1) : wide[i] = IF i < Int64Bytes THEN cut[i] ELSE 0
    /\ cut[Int64Bytes - 1] < 128

StrictlyPositive(days) ==
    LET cut == DaysDuration(days, Int64Bytes) IN
    /\ cut[Int64Bytes - 1] < 128
    /\ \E i \in 0..(Int64Bytes - 1) : cut[i] # 0

\* C37: the TTL computation never overflows. The duration of the default
\* of 365 days, and of every number of days a create goes on to write,
\* fits a signed 64-bit count of nanoseconds and is strictly positive; the
\* days written are in 1..3650 and the hours of the model are that
\* duration; and the TTL written is 0 only for a custom handle with a
\* valid auth code and expiration_days = 0.
C37_DurationNeverOverflows ==
    [][/\ \A p \in Procs :
            (/\ pc[p] \in {"idle", "exists"}
             /\ pc'[p] = "set"
             /\ ~(loc'[p].isValidAuthCodeForCustomFeature /\ req'[p].expiration_days # <<>>))
            => /\ loc'[p].redisExpirationDuration = DefaultExpirationDays * HoursPerDay
               /\ FitsInt64(DefaultExpirationDays)
               /\ StrictlyPositive(DefaultExpirationDays)
       /\ \A p \in Procs :
            (/\ pc[p] = "exists"
             /\ pc'[p] = "set"
             /\ loc[p].isValidAuthCodeForCustomFeature
             /\ req[p].expiration_days # <<>>
             /\ req[p].expiration_days # <<0>>)
            => LET days == req[p].expiration_days[1] IN
               /\ days \in 1..3650
               /\ FitsInt64(days)
               /\ StrictlyPositive(days)
               /\ loc'[p].redisExpirationDuration = days * HoursPerDay
       /\ \A p \in Procs :
            (pc[p] \in {"idle", "exists"} /\ pc'[p] = "set"
                /\ loc'[p].redisExpirationDuration = 0)
            => /\ req'[p].custom_handle # <<>>
               /\ InAllowList(req'[p].auth_code)
               /\ req'[p].expiration_days = <<0>>
       /\ \A p \in Procs :
            (pc[p] = "set" /\ pc'[p] = "idle" /\ out'.resp.status = StatusOK)
            => /\ rdb'[loc[p].codeToUse].expireAt = Persistent
                  <=> loc[p].redisExpirationDuration = 0
               /\ loc[p].redisExpirationDuration >= 0]_vars

\* C37 witness: a create with expiration_days = 3650 has written its key
\* with a TTL of 87600 hours, which fit 64 bits, while 106752 days do not.
C37_Witness ==
    /\ OutIsCreate
    /\ out.resp.status = StatusOK
    /\ out.req.expiration_days = <<MaxExpirationDays>>
    /\ rdb[Abc].expireAt = now + 87600
    /\ FitsInt64(MaxExpirationDays)
    /\ FitsInt64(FirstOverflowingDays - 1)
    /\ ~FitsInt64(FirstOverflowingDays)

\* C38: normalisation is idempotent and keeps a scheme that is there. The
\* target a create has computed from its long_url is a fixed point of the
\* normalisation, as is every target in the link store; and a long_url that,
\* trimmed of surrounding whitespace, starts with "http://" or "https://"
\* is computed, and stored under the code of the response, as its trimmed
\* self.
C38_NormalizeIdempotent ==
    /\ \A p \in Procs :
          pc[p] \in {"exists", "set"}
          => /\ NormalizeURL(loc[p].normalizedURL) = loc[p].normalizedURL
             /\ NormalizeURL(NormalizeURL(req[p].long_url)) = NormalizeURL(req[p].long_url)
             /\ ~SchemeLess(TrimSpace(req[p].long_url))
                => loc[p].normalizedURL = TrimSpace(req[p].long_url)
    /\ (/\ OutIsCreate
         /\ out.resp.status = StatusOK
         /\ ~SchemeLess(TrimSpace(out.req.long_url)))
        => rdb[CodeOfShortURL(out.resp.short_url)].value = TrimSpace(out.req.long_url)
    /\ \A c \in DOMAIN rdb : NormalizeURL(rdb[c].value) = rdb[c].value

\* C38 witness: the padded long_url " http://x " was stored under a random
\* code as "http://x", next to "https://y", which came with its scheme.
C38_Witness ==
    /\ OutIsCreate
    /\ out.resp.status = StatusOK
    /\ out.req.long_url = PaddedHttpX
    /\ out.req.custom_handle = <<>>
    /\ rdb[CodeOfShortURL(out.resp.short_url)].value = HttpX
    /\ \E c \in DOMAIN rdb : rdb[c].value = HttpsY

\* C39: no link with an empty destination is stored. Every target in the
\* link store is "http://" or "https://" followed by at least one further
\* character, and a create whose long_url is empty once trimmed of
\* surrounding whitespace is answered 400, unless the code generator or
\* the store failed it with 500.
C39_NoEmptyDestination ==
    /\ \A c \in DOMAIN rdb :
          \/ HasPrefix(rdb[c].value, HttpScheme) /\ Len(rdb[c].value) > Len(HttpScheme)
          \/ HasPrefix(rdb[c].value, HttpsScheme) /\ Len(rdb[c].value) > Len(HttpsScheme)
    /\ (/\ OutIsCreate
         /\ TrimSpace(out.req.long_url) = <<>>
         /\ out.resp.status # StatusInternalServerError)
        => out.resp.status = StatusBadRequest
====
